---- MODULE Spec2Model ----
(***************************************************************************)
(* Weiss Schwarz card importer (tools/ws-card-importer): the three-tier    *)
(* acquisition pipeline of download_official_cards.py, the paginated       *)
(* search client of cardlist_search.py and the memoising detail-page       *)
(* fetcher of card_page.py.                                                *)
(*                                                                         *)
(* The specifications share the variables:                                 *)
(*   SpecPaging     one call of CardSearchClient.fetch_cards, one action   *)
(*                  per search request;                                    *)
(*   Spec           one run of main(): load_set_bundle for every requested *)
(*                  set, one action per tier attempt;                      *)
(*   SpecFetcher    one CardPageFetcher called any number of times;        *)
(*   SpecMerge      merge_bundles called alone;                            *)
(*   SpecText       the text helpers called alone;                         *)
(*   SpecDiscovery  _discover_config on a search page, then _build_payload *)
(*                  with the config it found;                              *)
(*   SpecRows       _derive_series_info and build_card_row called alone;   *)
(*   SpecOffline    load_offline_bundle, then merge_bundles of its bundle. *)
(***************************************************************************)
EXTENDS Integers, Sequences, FiniteSets, TLC

VARIABLES
    \* ---- CardSearchClient.fetch_cards (SpecPaging) ----
    config,          \* self.config (SearchConfig)
    page,            \* local page of _fetch_cards_for_set
    results,         \* local results
    expected_total,  \* local expected_total
    reply,           \* the transport's answer to the last search request
    requests,        \* number of search requests issued by this call
    asked,           \* the page parameter of each request of this call, in order
    received,        \* the items of each decoded response of this call, in order
    ppc,             \* position: idle, loop, exited, done
    outcome,         \* what fetch_cards gave its caller
    \* ---- main() of download_official_cards.py (Spec) ----
    sets,               \* args.sets
    language,           \* args.language
    idx,                \* index in sets of the set load_set_bundle works on
    pc,                 \* search, export, offline (in load_set_bundle); merge, done, aborted
    SEARCH_CLIENT,      \* _SEARCH_CLIENT: None, client, FAILED
    CARD_PAGE_FETCHER,  \* _CARD_PAGE_FETCHER: None, fetcher, FAILED
    cache,              \* CardPageFetcher._cache
    detail_log,         \* the detail-page requests sent, in order
    discoveries,        \* loads of the search landing page
    search_page,        \* upstream: the search landing page
    detail_site,        \* upstream: the detail page of each card code
    drawn,              \* upstream: what each tier got for the set last worked on
    trail,              \* per set, the tiers attempted and how each ended
    bundles,            \* main's bundles
    raised,             \* the exception that left load_set_bundle, if any
    \* ---- CardPageFetcher alone (SpecFetcher) ----
    fetch_calls,        \* calls of fetch so far
    \* ---- merge_bundles (Spec, SpecMerge) ----
    merge_in,           \* the bundles handed to the last call of merge_bundles
    merged,             \* what that call returned
    merged_prev,        \* what the call before it returned
    mpc,                \* idle, merged, swapped, again
    \* ---- the text helpers called alone (SpecText) ----
    call                \* the last call: function, arguments, result

pagingVars ==
    <<config, page, results, expected_total, reply, requests, asked, received, ppc, outcome>>

fetcherVars == <<cache, detail_log, detail_site, fetch_calls>>

runVars == <<sets, language, idx, pc, SEARCH_CLIENT, CARD_PAGE_FETCHER, discoveries,
             search_page, drawn, trail, bundles, raised>>

mergeVars == <<merge_in, merged, merged_prev, mpc>>

vars == <<pagingVars, fetcherVars, runVars, mergeVars, call>>

(***************************************************************************)
(* Bounds of the model.                                                    *)
(***************************************************************************)
MaxItems == 2         \* items on a short page
MaxCards == 2         \* raw cards on a search page of a run
MaxFetchCalls == 3    \* calls of CardPageFetcher.fetch
MaxVariedPages == 1   \* pages whose response is drawn from all of VariedReplies
MaxMergeCards == 2    \* cards of a bundle handed to merge_bundles alone
MaxLen == 3           \* characters of a text handed to a text helper alone
MaxSnapshotCards == 2 \* card objects of an offline snapshot loaded alone

(***************************************************************************)
(* JSON values as tagged records (json.loads results).                     *)
(***************************************************************************)
JNull == [t |-> "null"]
JBool(b) == [t |-> "bool", b |-> b]
JInt(n) == [t |-> "int", n |-> n]
JStr(s) == [t |-> "str", s |-> s]
JList(l) == [t |-> "list", l |-> l]
JDict(d) == [t |-> "dict", d |-> d]
EmptyDict == [k \in {} |-> JNull]

\* dict.get(k): the value, or None
Get(d, k) == IF k \in DOMAIN d THEN d[k] ELSE JNull

\* Python truthiness of a JSON value (the operand test of "or")
Truthy(v) ==
    CASE v.t = "null" -> FALSE
      [] v.t = "bool" -> v.b
      [] v.t = "int" -> v.n # 0
      [] v.t = "str" -> v.s # <<>>
      [] v.t = "list" -> v.l # <<>>
      [] v.t = "dict" -> DOMAIN v.d # {}

PyOr(a, b) == IF Truthy(a) THEN a ELSE b

\* Optional integers and booleans (int | None, bool | None)
NoneInt == [some |-> FALSE, v |-> 0]
SomeInt(n) == [some |-> TRUE, v |-> n]
NoneBool == [some |-> FALSE, b |-> FALSE]
SomeBool(b) == [some |-> TRUE, b |-> b]

(***************************************************************************)
(* Strings are sequences of one-character strings.                         *)
(***************************************************************************)
UpperLetters == <<"A", "B", "C", "D", "E", "F", "G", "H", "I", "J", "K", "L", "M",
                  "N", "O", "P", "Q", "R", "S", "T", "U", "V", "W", "X", "Y", "Z">>
LowerLetters == <<"a", "b", "c", "d", "e", "f", "g", "h", "i", "j", "k", "l", "m",
                  "n", "o", "p", "q", "r", "s", "t", "u", "v", "w", "x", "y", "z">>
DigitChars == <<"0", "1", "2", "3", "4", "5", "6", "7", "8", "9">>
Range(f) == {f[i] : i \in DOMAIN f}
IndexOf(seq, c) == CHOOSE i \in DOMAIN seq : seq[i] = c
UpperSet == Range(UpperLetters)
LowerSet == Range(LowerLetters)
DigitSet == Range(DigitChars)

\* str.lower() and str.upper(), character by character
LowerOf == [c \in UpperSet |-> LowerLetters[IndexOf(UpperLetters, c)]]
UpperOf == [c \in LowerSet |-> UpperLetters[IndexOf(LowerLetters, c)]]
LowerChar(c) == IF c \in UpperSet THEN LowerOf[c] ELSE c
UpperChar(c) == IF c \in LowerSet THEN UpperOf[c] ELSE c
StrLower(s) == [i \in DOMAIN s |-> LowerChar(s[i])]
StrUpper(s) == [i \in DOMAIN s |-> UpperChar(s[i])]

\* str.strip(chars): leading and trailing characters of the set removed
RECURSIVE LStrip(_, _)
LStrip(s, chars) ==
    IF s # <<>> /\ Head(s) \in chars THEN LStrip(Tail(s), chars) ELSE s
RECURSIVE RStrip(_, _)
RStrip(s, chars) ==
    IF s # <<>> /\ s[Len(s)] \in chars THEN RStrip(SubSeq(s, 1, Len(s) - 1), chars) ELSE s
StripChars(s, chars) == RStrip(LStrip(s, chars), chars)
Whitespace == {" "}
StrStrip(s) == StripChars(s, Whitespace)

\* str.isdigit() and int(str)
IsDigit(s) == s # <<>> /\ \A i \in DOMAIN s : s[i] \in DigitSet
RECURSIVE StrInt(_)
StrInt(s) ==
    IF s = <<>> THEN 0
    ELSE 10 * StrInt(SubSeq(s, 1, Len(s) - 1)) + (IndexOf(DigitChars, s[Len(s)]) - 1)

\* the characters of the model in the order of their code points, which is
\* the order Python compares strings by
CodePointOrder ==
    <<" ", "!", "-", "/", ":">> \o DigitChars \o UpperLetters \o <<"[", "]", "_">>
    \o LowerLetters

Ord(c) == IndexOf(CodePointOrder, c)

\* a < b for two Python strings
StrLess(a, b) ==
    IF \E i \in 1..Len(a) : i <= Len(b) /\ a[i] # b[i]
    THEN \E i \in 1..Len(a) :
            /\ i <= Len(b) /\ a[i] # b[i] /\ Ord(a[i]) < Ord(b[i])
            /\ \A j \in 1..(i - 1) : a[j] = b[j]
    ELSE Len(a) < Len(b)

\* str(n) for an integer that is not negative
RECURSIVE IntStr(_)
IntStr(n) ==
    IF n < 10 THEN <<DigitChars[n + 1]>>
    ELSE IntStr(n \div 10) \o <<DigitChars[(n % 10) + 1]>>

\* str.endswith(suffix)
EndsWith(s, suffix) ==
    Len(s) >= Len(suffix) /\ SubSeq(s, Len(s) - Len(suffix) + 1, Len(s)) = suffix

(***************************************************************************)
(* cardlist_search.py helpers.                                             *)
(***************************************************************************)
RECURSIVE ExtractIntFrom(_, _, _)
ExtractIntFrom(source, keys, i) ==
    IF source.t # "dict" \/ i > Len(keys) THEN NoneInt
    ELSE LET value == Get(source.d, keys[i]) IN
         IF value.t = "int" THEN SomeInt(value.n)
         ELSE IF value.t = "bool" THEN SomeInt(IF value.b THEN 1 ELSE 0)
         ELSE IF value.t = "str" /\ IsDigit(value.s) THEN SomeInt(StrInt(value.s))
         ELSE IF value.t = "dict" /\ ExtractIntFrom(value, keys, 1).some
              THEN ExtractIntFrom(value, keys, 1)
         ELSE ExtractIntFrom(source, keys, i + 1)

\* _extract_int(source, keys)
ExtractInt(source, keys) == ExtractIntFrom(source, keys, 1)

ItemKeys == <<"items", "cards", "list", "data", "results">>

RECURSIVE ExtractItemsFrom(_, _)
ExtractItemsFrom(d, i) ==
    IF i > Len(ItemKeys) THEN <<>>
    ELSE LET value == Get(d, ItemKeys[i])
             nested == PyOr(PyOr(Get(value.d, "items"), Get(value.d, "list")),
                            Get(value.d, "rows"))
         IN IF value.t = "list" THEN value.l
            ELSE IF value.t = "dict" /\ nested.t = "list" THEN nested.l
            ELSE ExtractItemsFrom(d, i + 1)

\* _extract_items(data)
ExtractItems(data) ==
    IF data.t = "list" THEN data.l
    ELSE IF data.t = "dict" THEN ExtractItemsFrom(data.d, 1)
    ELSE <<>>

\* the first key of keys whose value is a bool (the isinstance(value, bool) loops)
RECURSIVE FirstBoolFrom(_, _, _)
FirstBoolFrom(d, keys, i) ==
    IF i > Len(keys) THEN NoneBool
    ELSE IF Get(d, keys[i]).t = "bool" THEN SomeBool(Get(d, keys[i]).b)
    ELSE FirstBoolFrom(d, keys, i + 1)

FirstBool(d, keys) == FirstBoolFrom(d, keys, 1)

TopFlagKeys == <<"hasNext", "has_next", "next">>
PagerFlagKeys == <<"hasNext", "has_next">>
PagerMaxKeys == <<"max", "maxPage", "pageMax", "last", "totalPages">>
TopMaxKeys == <<"maxPage", "max_page", "total_pages", "page_max">>
TotalKeys == <<"total", "total_count", "totalCount", "count">>

\* A variant of _has_next_page that reads a max-page value before the flags.
HasNextPageMaxFirst(cfg, data, pg, page_size) ==
    IF data.t # "dict" THEN FALSE
    ELSE LET top == FirstBool(data.d, TopFlagKeys)
             tmax == ExtractInt(data, TopMaxKeys)
         IN IF tmax.some THEN pg < tmax.v
            ELSE IF top.some THEN top.b
            ELSE TRUE

\* CardSearchClient._has_next_page(config, data, page, page_size)
HasNextPage(cfg, data, pg, page_size) ==
    IF data.t # "dict" THEN FALSE
    ELSE LET top == FirstBool(data.d, TopFlagKeys)
             pager == Get(data.d, "pager")
             pflag == IF pager.t = "dict" THEN FirstBool(pager.d, PagerFlagKeys)
                      ELSE NoneBool
             pmax == IF pager.t = "dict" THEN ExtractInt(pager, PagerMaxKeys)
                     ELSE NoneInt
             tmax == ExtractInt(data, TopMaxKeys)
             per_page == IF cfg.per_page.some /\ cfg.per_page.v # 0
                         THEN cfg.per_page.v ELSE page_size
         IN IF top.some THEN top.b
            ELSE IF pflag.some THEN pflag.b
            ELSE IF pmax.some THEN pg < pmax.v
            ELSE IF tmax.some THEN pg < tmax.v
            ELSE IF page_size = 0 THEN FALSE
            ELSE IF per_page # 0 /\ page_size < per_page THEN FALSE
            ELSE TRUE

\* the while loop's ceiling in _fetch_cards_for_set
PageCeiling == 200

\* per_page = config.per_page or 50 in _build_payload
DefaultPerPage == 50

\* the page size _build_payload asks for
PerPageHint(cfg) ==
    IF cfg.per_page.some /\ cfg.per_page.v # 0 THEN cfg.per_page.v ELSE DefaultPerPage

\* A variant of the loop guard without the ceiling.
LoopGuardNoCeiling(pg) == TRUE

\* while page <= 200
LoopGuard(pg) == pg <= PageCeiling

\* a variant of the loop body that cuts the results down to the announced total
PageStepTruncated(cfg, st, data) ==
    LET items == ExtractItems(data)
        res == st.results \o items
        et == IF st.expected_total.some THEN st.expected_total
              ELSE ExtractInt(data, TotalKeys)
    IN  IF items = <<>>
        THEN [page |-> st.page, results |-> st.results,
              expected_total |-> st.expected_total, brk |-> TRUE]
        ELSE IF et.some /\ Len(res) >= et.v
        THEN [page |-> st.page, results |-> SubSeq(res, 1, et.v), expected_total |-> et,
              brk |-> TRUE]
        ELSE IF ~HasNextPage(cfg, data, st.page, Len(items))
        THEN [page |-> st.page, results |-> res, expected_total |-> et, brk |-> TRUE]
        ELSE [page |-> st.page + 1, results |-> res, expected_total |-> et,
              brk |-> FALSE]

\* One iteration of the while loop of _fetch_cards_for_set, after the request:
\* st holds the locals page, results, expected_total; brk says the loop was left.
PageStep(cfg, st, data) ==
    LET items == ExtractItems(data)
        res == st.results \o items
        et == IF st.expected_total.some THEN st.expected_total
              ELSE ExtractInt(data, TotalKeys)
    IN  IF items = <<>>
        THEN [page |-> st.page, results |-> st.results,
              expected_total |-> st.expected_total, brk |-> TRUE]
        ELSE IF et.some /\ Len(res) >= et.v
        THEN [page |-> st.page, results |-> res, expected_total |-> et, brk |-> TRUE]
        ELSE IF ~HasNextPage(cfg, data, st.page, Len(items))
        THEN [page |-> st.page, results |-> res, expected_total |-> et, brk |-> TRUE]
        ELSE [page |-> st.page + 1, results |-> res, expected_total |-> et,
              brk |-> FALSE]

\* CardSearchClient._execute_request: the decoded JSON, or CardSearchError for
\* an HTTPError, a URLError or a body json.loads rejects.
ExecuteRequest(r) ==
    IF r.kind = "json" THEN [ok |-> TRUE, data |-> r.data]
    ELSE [ok |-> FALSE, data |-> JNull]

\* A variant of fetch_cards that returns whatever was accumulated.
FetchCardsResultNoCheck(cards) == [kind |-> "result", cards |-> cards]

\* CardSearchClient.fetch_cards, after _fetch_cards_for_set returned cards
FetchCardsResult(cards) ==
    IF cards = <<>> THEN [kind |-> "CardSearchError", cards |-> <<>>]
    ELSE [kind |-> "result", cards |-> cards]

(***************************************************************************)
(* The search request: _build_payload and _encode_pack_values.             *)
(***************************************************************************)
PackBrackets == <<"p", "a", "c", "k", "[", "]">>
SetBrackets == <<"s", "e", "t", "[", "]">>
ProductBrackets == <<"p", "r", "o", "d", "u", "c", "t", "[", "]">>
KeyAction == <<"a", "c", "t", "i", "o", "n">>
KeyNonce == <<"n", "o", "n", "c", "e">>
KeyKeyword == <<"k", "e", "y", "w", "o", "r", "d">>
KeyLang == <<"l", "a", "n", "g">>
KeyPerPage == <<"p", "e", "r", "_", "p", "a", "g", "e">>
KeyLimit == <<"l", "i", "m", "i", "t">>
KeyPage == <<"p", "a", "g", "e">>

\* SearchConfig with the defaults of the dataclass, <<>> standing for None
DefaultConfig ==
    [ajax_url |-> <<>>, action |-> <<>>, nonce |-> <<>>, pack_param |-> PackBrackets,
     lang_param |-> <<>>, keyword_param |-> <<>>, page_param |-> KeyPage,
     per_page_param |-> <<>>, per_page |-> NoneInt, additional_params |-> <<>>]

\* cleaned.split("/", 1) for a cleaned that holds a slash
FirstSlash(s) == CHOOSE i \in 1..Len(s) : s[i] = "/" /\ \A j \in 1..(i - 1) : s[j] # "/"
Family(s) == SubSeq(s, 1, FirstSlash(s) - 1)
Suffix(s) == SubSeq(s, FirstSlash(s) + 1, Len(s))

\* the local values of _encode_pack_values, the empty ones left out
PackValues(set_code) ==
    LET cleaned == StrStrip(set_code)
    IN  ({cleaned} \cup (IF "/" \in Range(cleaned) THEN {Family(cleaned), Suffix(cleaned)}
                         ELSE {})) \ {<<>>}

\* the parameter names _encode_pack_values sends every value under
PackNames(pack_param) ==
    {pack_param,
     IF EndsWith(pack_param, <<"[", "]">>) THEN SubSeq(pack_param, 1, Len(pack_param) - 2)
     ELSE pack_param \o <<"[", "]">>,
     PackBrackets, SetBrackets, ProductBrackets}

\* x < y for two (name, value) tuples
PairLess(x, y) == StrLess(x[1], y[1]) \/ (x[1] = y[1] /\ StrLess(x[2], y[2]))

\* sorted(result)
MinPair(pairs) == CHOOSE x \in pairs : \A y \in pairs \ {x} : PairLess(x, y)
RECURSIVE SortedPairs(_)
SortedPairs(pairs) ==
    IF pairs = {} THEN <<>>
    ELSE <<MinPair(pairs)>> \o SortedPairs(pairs \ {MinPair(pairs)})

\* CardSearchClient._encode_pack_values
encode_pack_values(pack_param0, set_code) ==
    LET pack_param == IF pack_param0 = <<>> THEN PackBrackets ELSE pack_param0
    IN  SortedPairs({<<name, value>> : name \in PackNames(pack_param),
                                       value \in PackValues(set_code)})

\* _build_payload up to the page number: the hidden fields, the action, the
\* nonce, the keyword, the language, the page size and the page
PayloadFields(cfg, lang, page_no) ==
    cfg.additional_params
    \o (IF cfg.action # <<>> THEN <<<<KeyAction, cfg.action>>>> ELSE <<>>)
    \o (IF cfg.nonce # <<>> THEN <<<<KeyNonce, cfg.nonce>>>> ELSE <<>>)
    \o <<<<IF cfg.keyword_param # <<>> THEN cfg.keyword_param ELSE KeyKeyword, <<>>>>>>
    \o <<<<IF cfg.lang_param # <<>> THEN cfg.lang_param ELSE KeyLang, lang>>>>
    \o (IF cfg.per_page_param # <<>>
        THEN <<<<cfg.per_page_param, IntStr(PerPageHint(cfg))>>>>
        ELSE <<<<KeyPerPage, IntStr(PerPageHint(cfg))>>, <<KeyLimit, IntStr(PerPageHint(cfg))>>>>)
    \o <<<<IF cfg.page_param # <<>> THEN cfg.page_param ELSE KeyPage, IntStr(page_no)>>>>

\* CardSearchClient._build_payload
build_payload(cfg, set_code, lang, page_no) ==
    PayloadFields(cfg, lang, page_no) \o encode_pack_values(cfg.pack_param, set_code)

(***************************************************************************)
(* The search backend of SpecPaging.                                       *)
(***************************************************************************)
\* n items of page p; an item is known by its page and its place on it
Items(p, n) == [i \in 1..n |-> <<p, i>>]

\* SearchConfig.per_page as _SearchPageParser.to_config leaves it
PerPageValues == {NoneInt} \cup {SomeInt(n) : n \in 1..MaxItems}

\* a config whose form named the page parameter and held a hidden page input
NamedPageConfig ==
    [DefaultConfig EXCEPT !.page_param = <<"p", "g">>,
                          !.additional_params = <<<<KeyPage, <<"1">>>>>>]

SearchConfigs == {[DefaultConfig EXCEPT !.per_page = n] : n \in PerPageValues}
                 \cup {NamedPageConfig}

\* the language of the call
PagingLanguage == <<"e", "n">>

\* the (page_param, str(page)) tuple of the payload, the one the pack values
\* follow
PageTuple(cfg, lang, page_no) ==
    PayloadFields(cfg, lang, page_no)[Len(PayloadFields(cfg, lang, page_no))]

ItemCounts(cfg) == (1..MaxItems) \cup {PerPageHint(cfg)}

TotalMeta == {EmptyDict, "total" :> JInt(1), "count" :> JStr(<<"3">>)}
TopFlagMeta == {EmptyDict, "hasNext" :> JBool(TRUE), "hasNext" :> JBool(FALSE),
                ("has_next" :> JBool(TRUE)) @@ ("next" :> JBool(FALSE))}
PagerMeta == {EmptyDict,
              "pager" :> JDict("hasNext" :> JBool(FALSE)),
              "pager" :> JDict("max" :> JInt(1)),
              "pager" :> JDict(("has_next" :> JBool(TRUE)) @@ ("last" :> JStr(<<"1">>)))}
TopMaxMeta == {EmptyDict, "maxPage" :> JInt(1), "total_pages" :> JStr(<<"3">>)}

Containers(items) ==
    {k :> JList(items) : k \in Range(ItemKeys)} \cup
    {
     "data" :> JDict("rows" :> JList(items)),
     ("items" :> JDict("count" :> JInt(0))) @@ ("cards" :> JList(items))}

Json(d) == [kind |-> "json", data |-> d]
Undecodable == [kind |-> "undecodable", data |-> JNull]
HttpError == [kind |-> "http_error", data |-> JNull]
UrlError == [kind |-> "url_error", data |-> JNull]

\* what the backend may answer on one of the first MaxVariedPages pages
VariedReplies(p, cfg) ==
    {Undecodable, HttpError, UrlError, Json(JStr(<<"x">>))}
    \cup {Json(JList(Items(p, n))) : n \in {0} \cup ItemCounts(cfg)}
    \cup {Json(JDict(c)) : c \in Containers(<<>>)}
    \cup UNION {{Json(JDict(c)) : c \in Containers(Items(p, n))} : n \in ItemCounts(cfg)}
    \cup UNION {{Json(JDict(("items" :> JList(Items(p, n))) @@ a @@ b @@ c @@ d)) :
                    a \in TotalMeta, b \in TopFlagMeta, c \in PagerMeta, d \in TopMaxMeta}
                : n \in ItemCounts(cfg)}

\* what it may answer on every later page
SteadyReplies(p) ==
    {Undecodable,
     Json(JList(<<>>)),
     Json(JDict("items" :> JList(<<>>))),
     Json(JDict(("items" :> JList(Items(p, 1))) @@ ("hasNext" :> JBool(TRUE))))}

Replies(p, cfg) == IF p <= MaxVariedPages THEN VariedReplies(p, cfg) ELSE SteadyReplies(p)

NoOutcome == [kind |-> "none", cards |-> <<>>]

(***************************************************************************)
(* SpecPaging: one call of fetch_cards.                                    *)
(***************************************************************************)
PagingIdle ==
    /\ config = DefaultConfig
    /\ page = 1
    /\ results = <<>>
    /\ expected_total = NoneInt
    /\ reply = Json(JNull)
    /\ requests = 0
    /\ asked = <<>>
    /\ received = <<>>
    /\ ppc = "idle"
    /\ outcome = NoOutcome

\* fetch_cards is entered: _fetch_cards_for_set sets up its locals
SearchStart ==
    /\ ppc = "idle"
    /\ config' \in SearchConfigs
    /\ page' = 1
    /\ results' = <<>>
    /\ expected_total' = NoneInt
    /\ requests' = 0
    /\ asked' = <<>>
    /\ received' = <<>>
    /\ ppc' = "loop"
    /\ UNCHANGED <<reply, outcome, fetcherVars, runVars, mergeVars, call>>

\* one pass of the while loop: the request for the current page and what
\* the loop does with the answer
SearchPage ==
    /\ ppc = "loop"
    /\ LoopGuard(page)
    /\ \E r \in Replies(page, config) :
        LET x == ExecuteRequest(r)
            st == PageStep(config,
                           [page |-> page, results |-> results,
                            expected_total |-> expected_total], x.data)
        IN  /\ reply' = r
            /\ requests' = requests + 1
            /\ asked' = Append(asked, PageTuple(config, PagingLanguage, page))
            /\ IF ~x.ok
               THEN /\ ppc' = "done"
                    /\ outcome' = [kind |-> "CardSearchError", cards |-> <<>>]
                    /\ UNCHANGED <<page, results, expected_total, received>>
               ELSE /\ page' = st.page
                    /\ received' = Append(received, ExtractItems(x.data))
                    /\ results' = st.results
                    /\ expected_total' = st.expected_total
                    /\ ppc' = IF st.brk THEN "exited" ELSE "loop"
                    /\ UNCHANGED outcome
    /\ UNCHANGED <<config, fetcherVars, runVars, mergeVars, call>>

\* the loop is left (break, or the guard fails) and fetch_cards returns or raises
SearchReturn ==
    /\ \/ ppc = "exited"
       \/ ppc = "loop" /\ ~LoopGuard(page)
    /\ outcome' = FetchCardsResult(results)
    /\ ppc' = "done"
    /\ UNCHANGED <<config, page, results, expected_total, reply, requests, asked, received,
                   fetcherVars, runVars, mergeVars, call>>

(***************************************************************************)
(* Helpers of download_official_cards.py.                                  *)
(***************************************************************************)
\* _first_str(source, keys): the stripped value, <<>> standing for None
RECURSIVE FirstStrFrom(_, _, _)
FirstStrFrom(d, keys, i) ==
    IF i > Len(keys) THEN <<>>
    ELSE LET value == Get(d, keys[i])
         IN  IF value.t = "str" /\ StrStrip(value.s) # <<>> THEN StrStrip(value.s)
             ELSE FirstStrFrom(d, keys, i + 1)

FirstStr(d, keys) == FirstStrFrom(d, keys, 1)

\* _first_non_empty(source, keys) of cardlist_search.py
RECURSIVE FirstNonEmptyFrom(_, _, _)
FirstNonEmptyFrom(d, keys, i) ==
    IF i > Len(keys) THEN <<>>
    ELSE LET value == Get(d, keys[i])
         IN  IF value.t = "str" /\ StrStrip(value.s) # <<>> THEN StrStrip(value.s)
             ELSE FirstNonEmptyFrom(d, keys, i + 1)

FirstNonEmpty(d, keys) == FirstNonEmptyFrom(d, keys, 1)

\* _first_dict(source, keys): always a dict, the empty one when none is found
RECURSIVE FirstDictFrom(_, _, _)
FirstDictFrom(d, keys, i) ==
    IF i > Len(keys) THEN EmptyDict
    ELSE LET value == Get(d, keys[i])
         IN  IF value.t = "dict" THEN value.d ELSE FirstDictFrom(d, keys, i + 1)

FirstDict(d, keys) == FirstDictFrom(d, keys, 1)

\* re.sub(r"[^a-z0-9]+", "-", s): every maximal run of other characters
\* becomes one dash
SubRuns(s) ==
    LET keep == LowerSet \cup DigitSet
        firsts == SelectSeq([i \in 1..Len(s) |-> i],
                            LAMBDA i : s[i] \in keep \/ i = 1 \/ s[i - 1] \in keep)
    IN  [k \in 1..Len(firsts) |-> IF s[firsts[k]] \in keep THEN s[firsts[k]] ELSE "-"]

\* slugify_card_code(card_code)
slugify_card_code(card_code) == StripChars(SubRuns(StrLower(card_code)), {"-"})

\* slugify_series_id(set_code)
slugify_series_id(set_code) == StripChars(SubRuns(StrLower(set_code)), {"-"})

\* str.split(sep) for a one-character separator
RECURSIVE SplitFrom(_, _, _, _)
SplitFrom(s, sep, i, cur) ==
    IF i > Len(s) THEN <<cur>>
    ELSE IF s[i] = sep THEN <<cur>> \o SplitFrom(s, sep, i + 1, <<>>)
    ELSE SplitFrom(s, sep, i + 1, Append(cur, s[i]))

Split(s, sep) == SplitFrom(s, sep, 1, <<>>)

\* _normalise_detail_language(language)
NormaliseDetailLanguage(lang) ==
    LET l == StrLower(StrStrip(lang))
    IN  IF l \in {<<>>, <<"j", "a">>, <<"j", "p">>,
                  <<"j", "a", "p", "a", "n", "e", "s", "e">>}
        THEN <<"j", "a">> ELSE l

\* main: language = (args.language or "ja").strip() or "ja"
MainLanguage(arg) ==
    LET l == StrStrip(IF arg = <<>> THEN <<"j", "a">> ELSE arg)
    IN  IF l = <<>> THEN <<"j", "a">> ELSE l

CardCodeKeys == <<"card_no", "cardNo", "cardCode", "card_code", "number">>
CardTitleKeys == <<"card_name", "cardName", "name", "title">>
SeriesCodeKeys == <<"setCode", "set_code", "productCode", "product_code", "series", "series_id">>
InfoKeys == <<"pack", "info", "product", "meta", "header">>
CardsArrayKeys == <<"data", "cards", "cardList", "list", "items">>
NestedArrayKeys == <<"items", "rows", "list", "data">>

DescriptionKeys == <<"ability", "ability1", "ability2", "ability_text", "text",
                     "effect", "flavor", "flavor_text", "ability_en">>

\* "\n\n".join(parts)
RECURSIVE JoinParts(_, _)
JoinParts(parts, i) ==
    IF i > Len(parts) THEN <<>>
    ELSE IF i = Len(parts) THEN parts[i]
    ELSE parts[i] \o <<"\n", "\n">> \o JoinParts(parts, i + 1)

\* build_description(raw)
RECURSIVE DescriptionParts(_, _, _)
DescriptionParts(raw, i, parts) ==
    IF i > Len(DescriptionKeys) THEN parts
    ELSE LET value == FirstStr(raw, <<DescriptionKeys[i]>>)
             stripped == StrStrip(value)
         IN  IF value # <<>> /\ stripped # <<>> /\ stripped \notin Range(parts)
             THEN DescriptionParts(raw, i + 1, Append(parts, stripped))
             ELSE DescriptionParts(raw, i + 1, parts)

build_description(raw) == JoinParts(DescriptionParts(raw, 1, <<>>), 1)

\* Python's "secondary in primary" on strings
IsSubstring(a, b) ==
    \E i \in 0..(Len(b) - Len(a)) : SubSeq(b, i + 1, i + Len(a)) = a

\* merge_descriptions(primary, secondary)
merge_descriptions(primary0, secondary0) ==
    LET primary == StrStrip(primary0)
        secondary == StrStrip(secondary0)
    IN  IF primary = <<>> THEN secondary
        ELSE IF secondary = <<>> THEN primary
        ELSE IF primary = secondary THEN primary
        ELSE IF IsSubstring(secondary, primary) THEN primary
        ELSE JoinParts(<<primary, secondary>>, 1)

(***************************************************************************)
(* card_page.py: CardPageFetcher.                                          *)
(***************************************************************************)
\* CardPageDetails; <<>> stands for None
CardPageDetails(title, effect, image_url) ==
    [title |-> title, effect |-> effect, image_url |-> image_url]

NoDetails == CardPageDetails(<<>>, <<>>, <<>>)

\* what the site answers to a detail request: a page from which the three
\* extractors got these values, or a transport error
DetailPage(title, effect, image_url) ==
    [kind |-> "page", details |-> CardPageDetails(title, effect, image_url)]

DetailHttpError == [kind |-> "http_error", details |-> NoDetails]
DetailUrlError == [kind |-> "url_error", details |-> NoDetails]

EmptyCache == [k \in {} |-> NoDetails]

\* CardPageFetcher.fetch(card_code, language=lang) on the fetcher state
\* f = [cache, log]; ok = FALSE stands for CardPageFetchError
Fetch(f, card_code, lang, site) ==
    LET key == <<card_code, lang>>
        r == site[card_code]
        good == r.kind = "page" /\ r.details # NoDetails
    IN  IF key \in DOMAIN f.cache
        THEN [ok |-> TRUE, details |-> f.cache[key], cache |-> f.cache, log |-> f.log]
        ELSE [ok |-> good,
              details |-> IF good THEN r.details ELSE NoDetails,
              cache |-> IF good THEN (key :> r.details) @@ f.cache ELSE f.cache,
              log |-> Append(f.log, [key |-> key, ok |-> good])]

RarityKeys == <<"rarity", "rare", "rar">>

RARITY_NORMALISATION ==
    (<<"C">> :> <<"C">>) @@ (<<"U">> :> <<"U">>) @@ (<<"R">> :> <<"R">>)
    @@ (<<"S", "R">> :> <<"S", "R">>) @@ (<<"R", "R">> :> <<"S", "R">>)
    @@ (<<"R", "R", "R">> :> <<"S", "P">>) @@ (<<"S", "E", "C">> :> <<"S", "P">>)
    @@ (<<"S", "P">> :> <<"S", "P">>) @@ (<<"S", "S", "P">> :> <<"S", "P">>)



\* a variant of normalise_rarity that looks the label up as it comes
normalise_rarity_unstripped(value) ==
    IF value = <<>> THEN <<"C">>
    ELSE IF StrUpper(value) \in DOMAIN RARITY_NORMALISATION
    THEN RARITY_NORMALISATION[StrUpper(value)]
    ELSE <<"R">>

\* normalise_rarity(value); <<>> stands for None and for ""
normalise_rarity(value) ==
    IF value = <<>> THEN <<"C">>
    ELSE IF StrUpper(StrStrip(value)) \in DOMAIN RARITY_NORMALISATION
    THEN RARITY_NORMALISATION[StrUpper(StrStrip(value))]
    ELSE <<"R">>

(***************************************************************************)
(* Rows and bundles.                                                       *)
(***************************************************************************)
\* SeriesRow, by its identifying fields
SeriesRow(id, setCode) == [id |-> id, setCode |-> setCode]

\* CardRow as build_card_row and load_offline_bundle construct it, with the
\* effect field next to the fields of the dataclass; <<>> stands for None
CardRow(id, seriesId, cardCode, title, rarity, description, effect) ==
    [id |-> id, seriesId |-> seriesId, cardCode |-> cardCode, title |-> title,
     rarity |-> rarity, description |-> description, effect |-> effect]

ExportBundle(series, cards) == [series |-> series, cards |-> cards]

NoBundle == ExportBundle(<<>>, <<>>)

\* derive_set_code_from_cards(cards_raw, default)
RECURSIVE DeriveSetCodeFrom(_, _, _)
DeriveSetCodeFrom(cards_raw, default, i) ==
    IF i > Len(cards_raw) THEN default
    ELSE LET raw == cards_raw[i]
             code == IF raw.t = "dict" THEN FirstStr(raw.d, CardCodeKeys) ELSE <<>>
             parts == Split(code, "-")
         IN  IF code = <<>> THEN DeriveSetCodeFrom(cards_raw, default, i + 1)
             ELSE IF Len(parts) >= 2 THEN parts[1] \o <<"/">> \o parts[2]
             ELSE code

derive_set_code_from_cards(cards_raw, default) == DeriveSetCodeFrom(cards_raw, default, 1)

\* a variant of build_series_row that uses the set code itself as the id
build_series_row_unslugged(info, cards_raw, set_code) ==
    LET from_info == FirstStr(info, SeriesCodeKeys)
        set_code_value == IF from_info # <<>> THEN from_info
                          ELSE derive_set_code_from_cards(cards_raw, set_code)
    IN  SeriesRow(set_code_value, set_code_value)

\* build_series_row(info, cards_raw, set_code)
build_series_row(info, cards_raw, set_code) ==
    LET from_info == FirstStr(info, SeriesCodeKeys)
        set_code_value == IF from_info # <<>> THEN from_info
                          ELSE derive_set_code_from_cards(cards_raw, set_code)
    IN  SeriesRow(slugify_series_id(set_code_value), set_code_value)

\* build_card_row from line 334 on: the row, given the outcome got of the
\* detail fetch (ok = FALSE: detail stays None)
BuildRowWithDetail(card_code, title, rarity, description, series_id, f, got) ==
    LET detail == got.details
        title2 == IF got.ok /\ detail.title # <<>> THEN detail.title ELSE title
        description2 == IF got.ok /\ detail.effect # <<>>
                        THEN merge_descriptions(detail.effect, description)
                        ELSE description
        effect_text == IF got.ok /\ detail.effect # <<>> THEN StrStrip(detail.effect)
                       ELSE description2
    IN  [row |-> <<CardRow(slugify_card_code(card_code), series_id, card_code,
                           StrStrip(title2), rarity, description2, effect_text)>>,
         f |-> f]

\* build_card_row from line 314 on, given the fields read from raw: the
\* detail fetch and _disable_card_page_fetcher() when it fails
BuildRowFromFields(card_code, title, rarity, description, series_id, use_fetcher, detail_language, f, got) ==
    IF card_code = <<>> \/ title = <<>> THEN [row |-> <<>>, f |-> f]
    ELSE IF ~use_fetcher
    THEN BuildRowWithDetail(card_code, title, rarity, description, series_id, f,
                            [ok |-> FALSE, details |-> NoDetails])
    ELSE BuildRowWithDetail(card_code, title, rarity, description, series_id,
                            [cache |-> got.cache, log |-> got.log,
                             disabled |-> f.disabled \/ ~got.ok],
                            got)

\* build_card_row(raw, series_id, set_code, detail_fetcher=, detail_language=)
\* on the fetcher state f = [cache, log, disabled]; use_fetcher = FALSE stands
\* for detail_fetcher=None; row is <<>> for None, else <<the row>>
build_card_row(raw, series_id, set_code, use_fetcher, detail_language, f, site) ==
    IF raw.t # "dict" THEN [row |-> <<>>, f |-> f]
    ELSE BuildRowFromFields(FirstStr(raw.d, CardCodeKeys), FirstStr(raw.d, CardTitleKeys),
                            normalise_rarity(FirstStr(raw.d, RarityKeys)),
                            build_description(raw.d), series_id, use_fetcher,
                            detail_language, f,
                            Fetch(f, FirstStr(raw.d, CardCodeKeys), detail_language, site))

\* the loop over cards_raw in fetch_from_search (lines 167-176) and the
\* comprehension of parse_official_payload (238-242); acc = [cards, f]
RECURSIVE BuildCardRows(_, _, _, _, _, _, _, _)
\* one pass: the row b of cards_raw[i] is appended and the loop goes on
BuildCardRowsStep(cards_raw, i, series_id, set_code, use_fetcher, detail_language, acc, site, b) ==
    BuildCardRows(cards_raw, i + 1, series_id, set_code, use_fetcher, detail_language,
                  [cards |-> acc.cards \o b.row, f |-> b.f], site)

BuildCardRows(cards_raw, i, series_id, set_code, use_fetcher, detail_language, acc, site) ==
    IF i > Len(cards_raw) THEN acc
    ELSE BuildCardRowsStep(cards_raw, i, series_id, set_code, use_fetcher, detail_language,
                           acc, site,
                           build_card_row(cards_raw[i], series_id, set_code, use_fetcher,
                                          detail_language, acc.f, site))

(***************************************************************************)
(* The three tiers, as functions of the module globals                     *)
(* g = [client, config, fetcher, cache, log, discoveries, requests] and of *)
(* what the upstream answers; requests counts the search requests of the   *)
(* last call of fetch_from_search.  Each gives [ok, err, bundle, g].       *)
(***************************************************************************)
TierOk(bundle, g) == [ok |-> TRUE, err |-> "none", bundle |-> bundle, g |-> g]
TierRaise(err, g) == [ok |-> FALSE, err |-> err, bundle |-> NoBundle, g |-> g]

\* the search landing page, by what _SearchPageParser finds in it
SearchHtml(ajax, per_page) == [kind |-> "html", ajax |-> ajax, per_page |-> per_page]
SearchHtmlHttpError == [kind |-> "http_error", ajax |-> FALSE, per_page |-> NoneInt]

\* CardSearchClient.__init__ / _discover_config / _fetch_html / to_config
DiscoverConfig(r) ==
    IF r.kind = "html" /\ r.ajax
    THEN [ok |-> TRUE, config |-> [DefaultConfig EXCEPT !.per_page = r.per_page]]
    ELSE [ok |-> FALSE, config |-> DefaultConfig]

\* a variant of _ensure_search_client that does not look at the FAILED sentinel
EnsureSearchClientRetry(g, r) ==
    IF g.client = "client" THEN [ok |-> TRUE, g |-> g]
    ELSE LET c == DiscoverConfig(r)
             g1 == [g EXCEPT !.discoveries = @ + 1]
         IN  IF c.ok
             THEN [ok |-> TRUE, g |-> [g1 EXCEPT !.client = "client", !.config = c.config]]
             ELSE [ok |-> FALSE, g |-> [g1 EXCEPT !.client = "FAILED"]]

\* _ensure_search_client()
EnsureSearchClient(g, r) ==
    IF g.client = "client" THEN [ok |-> TRUE, g |-> g]
    ELSE IF g.client = "FAILED" THEN [ok |-> FALSE, g |-> g]
    ELSE LET c == DiscoverConfig(r)
             g1 == [g EXCEPT !.discoveries = @ + 1]
         IN  IF c.ok
             THEN [ok |-> TRUE, g |-> [g1 EXCEPT !.client = "client", !.config = c.config]]
             ELSE [ok |-> FALSE, g |-> [g1 EXCEPT !.client = "FAILED"]]

\* the answer of a search backend to the request for page p; a backend is
\* the sequence of its answers, and past its end it has no more items
BackendReply(backend, p) == IF p <= Len(backend) THEN backend[p] ELSE Json(JList(<<>>))

\* _fetch_cards_for_set, run to its end against a backend
RECURSIVE FetchCardsForSet(_, _, _, _)
\* the loop after the body's pass s2 on a decoded response
FetchCardsAfterStep(cfg, backend, s2, n) ==
    IF s2.brk THEN [raised |-> FALSE, results |-> s2.results, requests |-> n]
    ELSE FetchCardsForSet(cfg, backend, s2, n)

\* the loop after the answer x of _execute_request
FetchCardsAfterRequest(cfg, backend, st, n, x) ==
    IF ~x.ok THEN [raised |-> TRUE, results |-> <<>>, requests |-> n]
    ELSE FetchCardsAfterStep(cfg, backend, PageStep(cfg, st, x.data), n)

FetchCardsForSet(cfg, backend, st, n) ==
    IF ~LoopGuard(st.page)
    THEN [raised |-> FALSE, results |-> st.results, requests |-> n]
    ELSE FetchCardsAfterRequest(cfg, backend, st, n + 1,
                                ExecuteRequest(BackendReply(backend, st.page)))

\* fetch_cards, given what _fetch_cards_for_set did
FetchCardsOutcome(r) ==
    IF r.raised THEN [kind |-> "CardSearchError", cards |-> <<>>]
    ELSE FetchCardsResult(r.results)

\* CardSearchClient.fetch_cards(set_code, language) against a backend
FetchCards(cfg, backend) ==
    FetchCardsOutcome(FetchCardsForSet(cfg, backend,
                          [page |-> 1, results |-> <<>>, expected_total |-> NoneInt], 0))

SeriesNameKeys == <<"pack_name", "set_name", "series_name", "product_name", "title", "packTitle">>
SeriesInfoCodeKeys == <<"pack_code", "set_code", "series_code", "product_code", "pack">>
ReleaseKeys == <<"release", "release_date", "releaseDate", "date">>

\* one pass of the loop over meta_candidates in _derive_series_info
DeriveFromCandidate(info, candidate) ==
    LET name == FirstNonEmpty(candidate, SeriesNameKeys)
        code == FirstNonEmpty(candidate, SeriesInfoCodeKeys)
        release == FirstNonEmpty(candidate, ReleaseKeys)
        i1 == IF "name" \notin DOMAIN info /\ name # <<>>
              THEN ("name" :> JStr(name)) @@ info ELSE info
        i2 == IF code # <<>> THEN ("setCode" :> JStr(code)) @@ i1 ELSE i1
    IN  IF release # <<>> THEN ("release" :> JStr(release)) @@ i2 ELSE i2

\* _derive_series_info from line 244 on, given the first dict among the cards
DeriveFromFirstCard(info, first_card) ==
    IF Get(first_card, "meta").t = "dict"
    THEN DeriveFromCandidate(DeriveFromCandidate(info, first_card), Get(first_card, "meta").d)
    ELSE DeriveFromCandidate(info, first_card)

\* the generator of line 238-242: the cards that are dicts
DictCards(cards) == SelectSeq(cards, LAMBDA c : c.t = "dict")

\* CardSearchClient._derive_series_info(cards, set_code)
derive_series_info(cards, set_code) ==
    IF DictCards(cards) = <<>> THEN "setCode" :> JStr(set_code)
    ELSE DeriveFromFirstCard("setCode" :> JStr(set_code), DictCards(cards)[1].d)

\* fetch_from_search from line 177 on: the rows are built
SearchFinish(g, series_row, built) ==
    IF built.cards = <<>>
    THEN TierRaise("CardSearchError",
                   [g EXCEPT !.cache = built.f.cache, !.log = built.f.log,
                             !.fetcher = IF built.f.disabled THEN "FAILED" ELSE @])
    ELSE TierOk(ExportBundle(<<series_row>>, built.cards),
                [g EXCEPT !.cache = built.f.cache, !.log = built.f.log,
                          !.fetcher = IF built.f.disabled THEN "FAILED" ELSE @])

\* fetch_from_search from line 164 on: _ensure_card_page_fetcher(), then the
\* loop over cards_raw with the fetcher it returned
SearchBuild(g, cards_raw, series_row, lang, site) ==
    IF g.fetcher = "FAILED" THEN TierRaise("CardPageFetchError", g)
    ELSE SearchFinish([g EXCEPT !.fetcher = "fetcher"], series_row,
                      BuildCardRows(cards_raw, 1, series_row.id, series_row.setCode, TRUE,
                                    NormaliseDetailLanguage(lang),
                                    [cards |-> <<>>,
                                     f |-> [cache |-> g.cache, log |-> g.log,
                                            disabled |-> FALSE]],
                                    site))

\* fetch_from_search from line 158 on, given what fetch_cards gave
SearchWithResult(g, result, set_code, lang, site) ==
    IF result.kind # "result" THEN TierRaise("CardSearchError", g)
    ELSE SearchBuild(g, result.cards,
                     build_series_row(derive_series_info(result.cards, set_code),
                                      result.cards, set_code),
                     lang, site)

\* fetch_from_search from line 156 on, given what _fetch_cards_for_set did
\* for fetch_cards
SearchWithFetched(g, r, set_code, lang, site) ==
    SearchWithResult([g EXCEPT !.requests = r.requests], FetchCardsOutcome(r), set_code, lang,
                     site)

\* fetch_from_search from line 156 on, given what _ensure_search_client() did
SearchWithClient(c, set_code, lang, backend, site) ==
    IF ~c.ok THEN TierRaise("CardSearchError", [c.g EXCEPT !.requests = 0])
    ELSE SearchWithFetched(c.g,
                           FetchCardsForSet(c.g.config, backend,
                                            [page |-> 1, results |-> <<>>,
                                             expected_total |-> NoneInt], 0),
                           set_code, lang, site)

\* fetch_from_search(set_code, language)
fetch_from_search(g, set_code, lang, page_reply, backend, site) ==
    SearchWithClient(EnsureSearchClient(g, page_reply), set_code, lang, backend, site)

\* _extract_cards_array(payload): the list found, or None
RECURSIVE ExtractCardsArrayFrom(_, _)
ExtractCardsArrayFrom(payload, i) ==
    IF i > Len(CardsArrayKeys) THEN JNull
    ELSE LET candidate == Get(payload, CardsArrayKeys[i])
             nested == JDict(FirstDict(candidate.d, NestedArrayKeys))
         IN  IF candidate.t = "list" THEN candidate
             ELSE IF candidate.t = "dict" /\ nested.t = "list" THEN nested
             ELSE ExtractCardsArrayFrom(payload, i + 1)

extract_cards_array(payload) == ExtractCardsArrayFrom(payload, 1)

\* parse_official_payload(payload, set_code)
parse_official_payload(payload, set_code, g) ==
    LET info == IF payload.t = "dict" THEN FirstDict(payload.d, InfoKeys) ELSE EmptyDict
        cards_raw == IF payload.t = "list" THEN payload
                     ELSE IF payload.t = "dict" THEN extract_cards_array(payload.d)
                     ELSE JNull
        series_row == build_series_row(info, cards_raw.l, set_code)
        built == BuildCardRows(cards_raw.l, 1, series_row.id, series_row.setCode, FALSE,
                               <<"j", "a">>,
                               [cards |-> <<>>,
                                f |-> [cache |-> g.cache, log |-> g.log, disabled |-> FALSE]],
                               EmptyCache)
    IN  IF payload.t \notin {"list", "dict"} THEN TierRaise("ValueError", g)
        ELSE IF cards_raw.t # "list" THEN TierRaise("ValueError", g)
        ELSE IF built.cards = <<>> THEN TierRaise("ValueError", g)
        ELSE TierOk(ExportBundle(<<series_row>>, built.cards), g)

\* fetch_from_official(set_code), given the export endpoint's answer
fetch_from_official(g, set_code, r) ==
    IF r.kind # "json" THEN TierRaise("RuntimeError", g)
    ELSE parse_official_payload(r.data, set_code, g)

\* the offline file of a set: absent, or its decoded JSON content
OfflineMissing == [kind |-> "missing", data |-> JNull]
OfflineJson(d) == [kind |-> "json", data |-> d]

SeriesRequired == {"id", "name", "setCode", "releaseYear"}
CardRequired == {"id", "seriesId", "cardCode", "title", "rarity"}

\* a JSON string or null as the Python value the row holds; <<>> for None
Unwrap(v) == IF v.t = "str" THEN v.s ELSE <<>>

\* the CardRow of one card object of the file
OfflineCardRow(item) ==
    CardRow(Unwrap(item["id"]), Unwrap(item["seriesId"]),
            Unwrap(item["cardCode"]), Unwrap(item["title"]),
            Unwrap(item["rarity"]),
            IF "description" \in DOMAIN item THEN Unwrap(item["description"]) ELSE <<>>,
            Unwrap(Get(item, "effect")))

\* a variant of the list comprehension that starts at the second card
OfflineCardRowsSkipFirst(items) ==
    [i \in 1..(Len(items) - 1) |-> OfflineCardRow(items[i + 1].d)]

\* the list comprehension over cards_data
OfflineCardRows(items) == [i \in 1..Len(items) |-> OfflineCardRow(items[i].d)]

\* load_offline_bundle(set_code, offline_dir), given the file of the set
load_offline_bundle(g, file) ==
    LET data == file.data
        series_data == Get(data.d, "series")
        cards_data == IF "cards" \in DOMAIN data.d THEN data.d["cards"] ELSE JList(<<>>)
        year == Get(series_data.d, "releaseYear")
        series == SeriesRow(Unwrap(series_data.d["id"]), Unwrap(series_data.d["setCode"]))
        cards == OfflineCardRows(cards_data.l)
    IN  IF file.kind = "missing" THEN TierRaise("FileNotFoundError", g)
        ELSE IF data.t # "dict" THEN TierRaise("AttributeError", g)
        ELSE IF ~Truthy(series_data) THEN TierRaise("ValueError", g)
        ELSE IF series_data.t # "dict" THEN TierRaise("TypeError", g)
        ELSE IF ~(SeriesRequired \subseteq DOMAIN series_data.d) THEN TierRaise("KeyError", g)
        ELSE IF ~(year.t = "int" \/ (year.t = "str" /\ IsDigit(StrStrip(year.s))))
        THEN TierRaise("ValueError", g)
        ELSE IF cards_data.t # "list" THEN TierRaise("TypeError", g)
        ELSE IF \E i \in 1..Len(cards_data.l) : cards_data.l[i].t # "dict"
        THEN TierRaise("TypeError", g)
        ELSE IF \E i \in 1..Len(cards_data.l) : ~(CardRequired \subseteq DOMAIN cards_data.l[i].d)
        THEN TierRaise("KeyError", g)
        ELSE TierOk(ExportBundle(<<series>>, cards), g)

(***************************************************************************)
(* merge_bundles.                                                          *)
(***************************************************************************)
\* a variant of the sort key of merge_bundles that leaves the series out
SortKeyLessByCode(x, y) == StrLess(x.cardCode, y.cardCode)

\* key(x) < key(y) for the sort key (c.seriesId, c.cardCode) of merge_bundles
SortKeyLess(x, y) ==
    \/ StrLess(x.seriesId, y.seriesId)
    \/ x.seriesId = y.seriesId /\ StrLess(x.cardCode, y.cardCode)

\* list.sort is stable: a card goes behind every card whose key is not greater
InsertSorted(sorted, x) ==
    LET k == Cardinality({i \in 1..Len(sorted) : ~SortKeyLess(x, sorted[i])})
    IN  SubSeq(sorted, 1, k) \o <<x>> \o SubSeq(sorted, k + 1, Len(sorted))

RECURSIVE SortCardsFrom(_, _, _)
SortCardsFrom(cards, i, sorted) ==
    IF i > Len(cards) THEN sorted
    ELSE SortCardsFrom(cards, i + 1, InsertSorted(sorted, cards[i]))

\* cards.sort(key=lambda c: (c.seriesId, c.cardCode))
SortCards(cards) == SortCardsFrom(cards, 1, <<>>)

MergeStart == [series |-> <<>>, cards |-> <<>>, seen_series |-> {}, seen_cards |-> {}]

\* a variant of the series loop that appends whatever it meets
AddSeriesNoSeen(acc, item) ==
    [acc EXCEPT !.series = Append(@, item), !.seen_series = @ \cup {item.id}]

\* a variant of the series loop in which the later record replaces the earlier
AddSeriesLastWins(acc, item) ==
    IF item.id \in acc.seen_series
    THEN [acc EXCEPT !.series = [i \in 1..Len(@) |-> IF @[i].id = item.id THEN item ELSE @[i]]]
    ELSE [acc EXCEPT !.series = Append(@, item), !.seen_series = @ \cup {item.id}]

\* the body of the loop over bundle.series
AddSeries(acc, item) ==
    IF item.id \in acc.seen_series THEN acc
    ELSE [acc EXCEPT !.series = Append(@, item), !.seen_series = @ \cup {item.id}]

\* a variant of the card loop that appends whatever it meets
AddCardNoSeen(acc, card) ==
    [acc EXCEPT !.cards = Append(@, card), !.seen_cards = @ \cup {<<card.id, card.cardCode>>}]

\* a variant of the card loop in which the later record replaces the earlier
AddCardLastWins(acc, card) ==
    IF <<card.id, card.cardCode>> \in acc.seen_cards
    THEN [acc EXCEPT !.cards = [i \in 1..Len(@) |->
                IF <<@[i].id, @[i].cardCode>> = <<card.id, card.cardCode>> THEN card ELSE @[i]]]
    ELSE [acc EXCEPT !.cards = Append(@, card),
                     !.seen_cards = @ \cup {<<card.id, card.cardCode>>}]

\* the body of the loop over bundle.cards
AddCard(acc, card) ==
    IF <<card.id, card.cardCode>> \in acc.seen_cards THEN acc
    ELSE [acc EXCEPT !.cards = Append(@, card),
                     !.seen_cards = @ \cup {<<card.id, card.cardCode>>}]

RECURSIVE AddAllSeries(_, _, _)
AddAllSeries(acc, items, i) ==
    IF i > Len(items) THEN acc ELSE AddAllSeries(AddSeries(acc, items[i]), items, i + 1)

RECURSIVE AddAllCards(_, _, _)
AddAllCards(acc, cards, i) ==
    IF i > Len(cards) THEN acc ELSE AddAllCards(AddCard(acc, cards[i]), cards, i + 1)

RECURSIVE MergeFrom(_, _, _)
\* the loop over the bundles
MergeFrom(acc, bs, i) ==
    IF i > Len(bs) THEN acc
    ELSE MergeFrom(AddAllCards(AddAllSeries(acc, bs[i].series, 1), bs[i].cards, 1), bs, i + 1)

MergeResult(acc) == ExportBundle(acc.series, SortCards(acc.cards))

\* merge_bundles(bundles)
merge_bundles(bs) == MergeResult(MergeFrom(MergeStart, bs, 1))

(***************************************************************************)
(* load_set_bundle.                                                        *)
(***************************************************************************)
Tiers == <<"search", "export", "offline">>

\* variant of load_set_bundle whose first handler is the only one
CaughtSearchErrorOnly(tier, err) == tier = "search" /\ err = "CardSearchError"

\* the except clauses of load_set_bundle: does an error raised in the tier
\* stay inside?  (110 and 116 around the search tier, 125 around the export
\* tier, none around the offline tier)
Caught(tier, err) == tier \in {"search", "export"}

\* variant of load_set_bundle that goes from the search tier to the offline one
NextTierSkipExport(tier) == "offline"

\* the tier load_set_bundle falls to when one fails and its error is caught
NextTier(tier) == IF tier = "search" THEN "export" ELSE "offline"

FreshGlobals ==
    [client |-> "None", config |-> DefaultConfig, fetcher |-> "None",
     cache |-> EmptyCache, log |-> <<>>, discoveries |-> 0, requests |-> 0]

\* one tier of load_set_bundle, given what the upstream answers to it
RunTier(tier, g, set_code, lang, page_reply, d, site) ==
    IF tier = "search" THEN fetch_from_search(g, set_code, lang, page_reply, d.search, site)
    ELSE IF tier = "export" THEN fetch_from_official(g, set_code, d.export)
    ELSE load_offline_bundle(g, d.offline)

\* load_set_bundle(set_code, offline_dir, language) from the tier it stands
\* at, run to its end: [ok, tier, err, bundle, g]
RECURSIVE LoadSetBundleFrom(_, _, _, _, _, _, _)
\* load_set_bundle after the outcome t of a tier
LoadSetBundleAfter(tier, t, set_code, lang, page_reply, d, site) ==
    IF t.ok \/ ~Caught(tier, t.err)
    THEN [ok |-> t.ok, tier |-> tier, err |-> t.err, bundle |-> t.bundle, g |-> t.g]
    ELSE LoadSetBundleFrom(NextTier(tier), t.g, set_code, lang, page_reply, d, site)

LoadSetBundleFrom(tier, g, set_code, lang, page_reply, d, site) ==
    LoadSetBundleAfter(tier, RunTier(tier, g, set_code, lang, page_reply, d, site),
                       set_code, lang, page_reply, d, site)

load_set_bundle(g, set_code, lang, page_reply, d, site) ==
    LoadSetBundleFrom("search", g, set_code, lang, page_reply, d, site)

(***************************************************************************)
(* What the upstream may hold in a run.                                    *)
(***************************************************************************)
SetX == <<"D", "D">>
SetY == <<"S", "F">>
CodeA == <<"D", "D", "/", "S", "-", "1">>
CodeB == <<"S", "F", "/", "S", "-", "2">>

RawA == JDict(("card_no" :> JStr(CodeA)) @@ ("name" :> JStr(<<"a">>))
              @@ ("ability" :> JStr(<<"x">>)))
RawB == JDict(("cardCode" :> JStr(CodeB)) @@ ("title" :> JStr(<<"b", " ">>))
              @@ ("rare" :> JStr(<<"r", "r">>)))
RawUntitled == JDict("card_no" :> JStr(CodeA))
RawCards == {RawA, RawB, RawUntitled}

RawLists == UNION {[1..n -> RawCards] : n \in 1..MaxCards}

SearchBackends ==
    {<<HttpError>>, <<Undecodable>>, <<Json(JList(<<>>))>>}
    \cup {<<Json(JDict("items" :> JList(l)))>> : l \in RawLists}
    \cup {<<Json(JDict(("items" :> JList(<<RawA>>)) @@ ("hasNext" :> JBool(TRUE)))), r>> :
            r \in {Undecodable, Json(JDict("items" :> JList(<<RawB>>)))}}

ExportReplies ==
    {HttpError, Undecodable, Json(JStr(<<"x">>)),
     Json(JList(<<RawA>>)),
     Json(JDict(("cards" :> JList(<<RawB, RawUntitled>>))
                @@ ("pack" :> JDict("setCode" :> JStr(SetY))))),
     Json(JDict("data" :> JDict("items" :> JList(<<RawA>>))))}

OfflineSeries ==
    JDict(("id" :> JStr(<<"d", "d">>)) @@ ("name" :> JStr(<<"n">>))
          @@ ("setCode" :> JStr(SetX)) @@ ("releaseYear" :> JInt(2024)))
OfflineCard ==
    JDict(("id" :> JStr(<<"d", "d", "-", "s", "-", "1">>)) @@ ("seriesId" :> JStr(<<"d", "d">>))
          @@ ("cardCode" :> JStr(CodeA)) @@ ("title" :> JStr(<<"a">>))
          @@ ("rarity" :> JStr(<<"R">>)))

\* a card whose seriesId names no series of its file
OfflineStray == JDict(("seriesId" :> JStr(<<"z", "z">>)) @@ OfflineCard.d)

\* a card that carries the label of the upstream
OfflineRawRarity ==
    JDict(("rarity" :> JStr(<<"R", "R", "R">>)) @@ ("cardCode" :> JStr(CodeB))
          @@ ("id" :> JStr(<<"s", "f", "-", "s", "-", "2">>)) @@ OfflineCard.d)

OfflineFiles ==
    {OfflineMissing,
     OfflineJson(JDict(("series" :> OfflineSeries)
                       @@ ("cards" :> JList(<<OfflineStray, OfflineRawRarity>>)))),
     OfflineJson(JDict("cards" :> JList(<<OfflineCard>>))),
     OfflineJson(JDict("series" :> OfflineSeries)),
     OfflineJson(JDict(("series" :> OfflineSeries) @@ ("cards" :> JList(<<OfflineCard>>))))}

SearchPages == {SearchHtml(TRUE, SomeInt(2)), SearchHtml(FALSE, NoneInt), SearchHtmlHttpError}

DetailAnswers == {DetailPage(<<"t">>, <<"y", " ">>, <<>>), DetailPage(<<>>, <<>>, <<>>), DetailHttpError}
DetailSites == [{CodeA, CodeB} -> DetailAnswers]

Languages == {<<"J", "P", " ">>, <<"e", "n">>}
Runs == {<<SetX>>, <<SetX, SetY>>}

NotAsked == [search |-> <<>>, export |-> HttpError, offline |-> OfflineMissing, idx |-> 0]

(***************************************************************************)
(* Spec: one run of main().                                                *)
(***************************************************************************)
Globals ==
    [client |-> SEARCH_CLIENT, config |-> config, fetcher |-> CARD_PAGE_FETCHER,
     cache |-> cache, log |-> detail_log, discoveries |-> discoveries,
     requests |-> requests]

FetcherIdle ==
    /\ cache = EmptyCache
    /\ detail_log = <<>>
    /\ fetch_calls = 0

RunIdle ==
    /\ sets = <<>>
    /\ language = <<>>
    /\ idx = 1
    /\ pc = "idle"
    /\ SEARCH_CLIENT = "None"
    /\ CARD_PAGE_FETCHER = "None"
    /\ discoveries = 0
    /\ search_page = SearchHtmlHttpError
    /\ drawn = NotAsked
    /\ trail = <<>>
    /\ bundles = <<>>
    /\ raised = "none"

MergeIdle ==
    /\ merge_in = <<>>
    /\ merged = NoBundle
    /\ merged_prev = NoBundle
    /\ mpc = "idle"

NoCall == [fn |-> "none", args |-> <<>>, result |-> <<>>]

TextIdle == call = NoCall

Init ==
    /\ PagingIdle
    /\ FetcherIdle
    /\ MergeIdle
    /\ TextIdle
    /\ detail_site \in DetailSites
    /\ sets \in Runs
    /\ language \in Languages
    /\ search_page \in SearchPages
    /\ idx = 1
    /\ pc = "search"
    /\ SEARCH_CLIENT = "None"
    /\ CARD_PAGE_FETCHER = "None"
    /\ discoveries = 0
    /\ drawn = NotAsked
    /\ trail = [i \in 1..Len(sets) |-> <<>>]
    /\ bundles = <<>>
    /\ raised = "none"

\* what load_set_bundle and main do with the outcome t of a tier
Settle(tier, t) ==
    /\ SEARCH_CLIENT' = t.g.client
    /\ config' = t.g.config
    /\ CARD_PAGE_FETCHER' = t.g.fetcher
    /\ cache' = t.g.cache
    /\ detail_log' = t.g.log
    /\ discoveries' = t.g.discoveries
    /\ requests' = t.g.requests
    /\ trail' = [trail EXCEPT ![idx] =
                    Append(@, [tier |-> tier, ok |-> t.ok, err |-> t.err, bundle |-> t.bundle])]
    /\ IF t.ok
       THEN /\ bundles' = Append(bundles, t.bundle)
            /\ idx' = idx + 1
            /\ pc' = IF idx = Len(sets) THEN "merge" ELSE "search"
            /\ UNCHANGED raised
       ELSE IF Caught(tier, t.err)
       THEN /\ pc' = NextTier(tier)
            /\ UNCHANGED <<bundles, idx, raised>>
       ELSE /\ pc' = "aborted"
            /\ raised' = t.err
            /\ UNCHANGED <<bundles, idx>>
    /\ UNCHANGED <<page, results, expected_total, reply, asked, received, ppc, outcome,
                   detail_site, fetch_calls, sets, language, search_page, mergeVars, call>>

\* load_set_bundle is entered for sets[idx] and runs the search tier
TrySearch ==
    /\ pc = "search"
    /\ \E backend \in SearchBackends :
        /\ drawn' = [NotAsked EXCEPT !.search = backend, !.idx = idx]
        /\ Settle("search", fetch_from_search(Globals, sets[idx], MainLanguage(language),
                                              search_page, backend, detail_site))

\* the search tier failed: the export tier
TryExport ==
    /\ pc = "export"
    /\ \E r \in ExportReplies :
        /\ drawn' = [drawn EXCEPT !.export = r]
        /\ Settle("export", fetch_from_official(Globals, sets[idx], r))

\* the export tier failed too: the offline tier
TryOffline ==
    /\ pc = "offline"
    /\ \E file \in OfflineFiles :
        /\ drawn' = [drawn EXCEPT !.offline = file]
        /\ Settle("offline", load_offline_bundle(Globals, file))

\* every set has its bundle: main merges, writes and returns
MainFinish ==
    /\ pc = "merge"
    /\ pc' = "done"
    /\ merge_in' = bundles
    /\ merged' = merge_bundles(bundles)
    /\ mpc' = "merged"
    /\ UNCHANGED <<pagingVars, fetcherVars, sets, language, idx, SEARCH_CLIENT,
                   CARD_PAGE_FETCHER, discoveries, search_page, drawn, trail, bundles, raised,
                   merged_prev, call>>

Next == TrySearch \/ TryExport \/ TryOffline \/ MainFinish

Spec == Init /\ [][Next]_vars

(***************************************************************************)
(* SpecFetcher: one CardPageFetcher called any number of times.            *)
(***************************************************************************)
DetailLanguages == {<<"j", "a">>, <<"e", "n">>}

FetcherInit ==
    /\ PagingIdle
    /\ FetcherIdle
    /\ RunIdle
    /\ MergeIdle
    /\ TextIdle
    /\ detail_site \in DetailSites

\* a caller calls fetch(card_code, language=lang)
FetchCall ==
    /\ fetch_calls < MaxFetchCalls
    /\ \E card_code \in {CodeA, CodeB}, lang \in DetailLanguages :
        LET got == Fetch([cache |-> cache, log |-> detail_log], card_code, lang, detail_site)
        IN  /\ cache' = got.cache
            /\ detail_log' = got.log
    /\ fetch_calls' = fetch_calls + 1
    /\ UNCHANGED <<pagingVars, runVars, detail_site, mergeVars, call>>

FetcherNext == FetchCall

SpecFetcher == FetcherInit /\ [][FetcherNext]_vars

PagingInit ==
    /\ PagingIdle
    /\ FetcherIdle
    /\ RunIdle
    /\ MergeIdle
    /\ TextIdle
    /\ detail_site = [c \in {CodeA, CodeB} |-> DetailHttpError]

PagingNext == SearchStart \/ SearchPage \/ SearchReturn

SpecPaging == PagingInit /\ [][PagingNext]_vars

(***************************************************************************)
(* The text helpers: image URLs and the underscore slugs.                  *)
(***************************************************************************)
StartsWith(s, prefix) == Len(s) >= Len(prefix) /\ SubSeq(s, 1, Len(prefix)) = prefix

\* str.replace(old, new) for one-character strings
ReplaceChar(s, old, new) == [i \in 1..Len(s) |-> IF s[i] = old THEN new ELSE s[i]]

\* re.sub of every run of characters outside keep by one sep
SubRunsBy(s, keep, sep) ==
    LET firsts == SelectSeq([i \in 1..Len(s) |-> i],
                            LAMBDA i : s[i] \in keep \/ i = 1 \/ s[i - 1] \in keep)
    IN  [k \in 1..Len(firsts) |-> IF s[firsts[k]] \in keep THEN s[firsts[k]] ELSE sep]

IdentifierChars == Range(LowerLetters) \cup Range(DigitChars) \cup {"_"}

\* re.sub(r"_+", "_", value)
SqueezeUnderscores(s) ==
    LET firsts == SelectSeq([i \in 1..Len(s) |-> i],
                            LAMBDA i : s[i] # "_" \/ i = 1 \/ s[i - 1] # "_")
    IN  [k \in 1..Len(firsts) |-> s[firsts[k]]]

\* _collapse_identifier(value)
CollapseIdentifier(value) ==
    StripChars(SqueezeUnderscores(SubRunsBy(value, IdentifierChars, "_")), {"_"})

\* _slugify_set_code(set_code)
SlugifySetCode(set_code) ==
    CollapseIdentifier(ReplaceChar(StrStrip(StrLower(set_code)), "/", "_"))

\* _slugify_card_code(card_code)
SlugifyCardCode(card_code) ==
    CollapseIdentifier(ReplaceChar(ReplaceChar(StrStrip(StrLower(card_code)), "/", "_"),
                                   "-", "_"))

CardPrefix == <<"c", "a", "r", "d">>

\* _first_alpha(value)
FirstAlpha(value) ==
    IF \E i \in 1..Len(value) : value[i] \in LowerSet \cup UpperSet
    THEN <<value[CHOOSE i \in 1..Len(value) :
                /\ value[i] \in LowerSet \cup UpperSet
                /\ \A j \in 1..(i - 1) :
                        value[j] \notin LowerSet \cup UpperSet]>>
    ELSE IF value # <<>> THEN <<value[1]>> ELSE CardPrefix

ImageRoot ==
    <<"h", "t", "t", "p", "s", ":", "/", "/", "w", "s", "-", "t", "c", "g", ".", "c", "o", "m",
      "/", "w", "o", "r", "d", "p", "r", "e", "s", "s", "/", "w", "p", "-", "c", "o", "n", "t",
      "e", "n", "t", "/", "i", "m", "a", "g", "e", "s", "/", "c", "a", "r", "d", "l", "i", "s",
      "t", "/">>

PngSuffix == <<".", "p", "n", "g">>

\* the URL build_default_image_url makes of the two slugs
DefaultImageUrl(set_slug, card_slug) ==
    ImageRoot \o (IF set_slug # <<>> THEN FirstAlpha(set_slug) ELSE CardPrefix)
    \o <<"/">> \o set_slug \o <<"/">> \o card_slug \o PngSuffix

\* build_default_image_url(card_code, set_code)
build_default_image_url(card_code, set_code) ==
    DefaultImageUrl(SlugifySetCode(set_code), SlugifyCardCode(card_code))

HttpScheme == <<"h", "t", "t", "p", ":", "/", "/">>
HttpsScheme == <<"h", "t", "t", "p", "s", ":", "/", "/">>
HttpsColon == <<"h", "t", "t", "p", "s", ":">>
SlashSlash == <<"/", "/">>
CardImagesPath ==
    <<"/", "c", "a", "r", "d", "l", "i", "s", "t", "/", "c", "a", "r", "d", "i", "m", "a", "g",
      "e", "s", "/">>

\* normalise_image_url once the URL is stripped and not empty
NormaliseStripped(image_url, canonical_url) ==
    IF StartsWith(image_url, HttpScheme) \/ StartsWith(image_url, HttpsScheme)
    THEN IF IsSubstring(CardImagesPath, image_url) THEN canonical_url ELSE image_url
    ELSE canonical_url

\* normalise_image_url(image_url, card_code, set_code); <<>> stands for None
\* and for ""
normalise_image_url(image_url, card_code, set_code) ==
    IF StrStrip(image_url) = <<>> THEN build_default_image_url(card_code, set_code)
    ELSE IF StartsWith(StrStrip(image_url), SlashSlash)
    THEN NormaliseStripped(HttpsColon \o StrStrip(image_url),
                           build_default_image_url(card_code, set_code))
    ELSE NormaliseStripped(StrStrip(image_url), build_default_image_url(card_code, set_code))

(***************************************************************************)
(* SpecText: the text helpers called alone on texts of any content.        *)
(***************************************************************************)
RECURSIVE Texts(_, _)
\* the texts of at most n characters of an alphabet
Texts(alphabet, n) ==
    IF n = 0 THEN {<<>>}
    ELSE Texts(alphabet, n - 1) \cup {Append(t, c) : t \in Texts(alphabet, n - 1), c \in alphabet}

RarityAlphabet == {"C", "U", "R", "S", "E", "P", "r", "X", " "}

RarityInputs == Texts(RarityAlphabet, MaxLen)

SlugAlphabet == {"A", "b", "1", "-", "/", "_", " ", "!"}

SlugInputs == Texts(SlugAlphabet, MaxLen)

UrlSchemes == {HttpsScheme, HttpScheme, SlashSlash, <<>>}

UrlRests == {<<"h", "/", "x">>, <<"h">> \o CardImagesPath \o <<"x">>}

UrlPads == {<<>>, <<" ">>}

ImageUrlInputs ==
    {<<>>, <<" ">>} \cup {p \o s \o r \o p : p \in UrlPads, s \in UrlSchemes, r \in UrlRests}

ImageCardCodes == {CodeA, <<"-">>}

ImageSetCodes == {SetX, <<"D", "D", "/", "S">>, <<"1", "a">>, <<"_">>}

Called(fn, args, result) == [fn |-> fn, args |-> args, result |-> result]

TextInit ==
    /\ PagingIdle
    /\ FetcherIdle
    /\ RunIdle
    /\ MergeIdle
    /\ TextIdle
    /\ detail_site = [c \in {CodeA, CodeB} |-> DetailHttpError]

\* a caller calls normalise_rarity(value)
CallNormaliseRarity ==
    /\ call = NoCall
    /\ \E value \in RarityInputs :
        call' = Called("normalise_rarity", <<value>>, normalise_rarity(value))
    /\ UNCHANGED <<pagingVars, fetcherVars, runVars, mergeVars>>

\* a caller calls normalise_image_url(image_url, card_code, set_code)
CallNormaliseImageUrl ==
    /\ call = NoCall
    /\ \E image_url \in ImageUrlInputs, card_code \in ImageCardCodes, set_code \in ImageSetCodes :
        call' = Called("normalise_image_url", <<image_url, card_code, set_code>>,
                       normalise_image_url(image_url, card_code, set_code))
    /\ UNCHANGED <<pagingVars, fetcherVars, runVars, mergeVars>>

\* a caller calls slugify_card_code(card_code)
CallSlugifyCardCode ==
    /\ call = NoCall
    /\ \E card_code \in SlugInputs :
        call' = Called("slugify_card_code", <<card_code>>, slugify_card_code(card_code))
    /\ UNCHANGED <<pagingVars, fetcherVars, runVars, mergeVars>>

\* a caller calls slugify_series_id(set_code)
CallSlugifySeriesId ==
    /\ call = NoCall
    /\ \E set_code \in SlugInputs :
        call' = Called("slugify_series_id", <<set_code>>, slugify_series_id(set_code))
    /\ UNCHANGED <<pagingVars, fetcherVars, runVars, mergeVars>>

\* a caller calls _slugify_set_code(set_code)
CallSlugifySetCode ==
    /\ call = NoCall
    /\ \E set_code \in SlugInputs :
        call' = Called("_slugify_set_code", <<set_code>>, SlugifySetCode(set_code))
    /\ UNCHANGED <<pagingVars, fetcherVars, runVars, mergeVars>>

\* a caller calls _slugify_card_code(card_code)
CallSlugifyCardCodeUnderscore ==
    /\ call = NoCall
    /\ \E card_code \in SlugInputs :
        call' = Called("_slugify_card_code", <<card_code>>, SlugifyCardCode(card_code))
    /\ UNCHANGED <<pagingVars, fetcherVars, runVars, mergeVars>>

TextNext ==
    \/ CallNormaliseRarity
    \/ CallNormaliseImageUrl
    \/ CallSlugifyCardCode
    \/ CallSlugifySeriesId
    \/ CallSlugifySetCode
    \/ CallSlugifyCardCodeUnderscore

SpecText == TextInit /\ [][TextNext]_vars

(***************************************************************************)
(* _SearchPageParser of cardlist_search.py.  A page is the sequence of the *)
(* tags html.parser reports; the body of a script element is held as what  *)
(* the patterns of _parse_script capture from it, <<>> where none matches. *)
(***************************************************************************)
WordSearch == <<"s", "e", "a", "r", "c", "h">>
WordCardlist == <<"c", "a", "r", "d", "l", "i", "s", "t">>
WordHidden == <<"h", "i", "d", "d", "e", "n">>
WordNonce == <<"n", "o", "n", "c", "e">>
WordAction == <<"a", "c", "t", "i", "o", "n">>
WordPack == <<"p", "a", "c", "k">>
WordSeries == <<"s", "e", "r", "i", "e", "s">>
WordLang == <<"l", "a", "n", "g">>
WordKeyword == <<"k", "e", "y", "w", "o", "r", "d">>
WordPage == <<"p", "a", "g", "e">>
WordPerPage == <<"p", "e", "r", "_", "p", "a", "g", "e">>
WordLimit == <<"l", "i", "m", "i", "t">>
Slash == <<"/">>
Brackets == <<"[", "]">>

\* _SearchPageParser.__init__
NewParser ==
    [in_form |-> FALSE, form_depth |-> 0, ajax_url |-> <<>>, action |-> <<>>,
     nonce |-> <<>>, pack_param |-> <<>>, lang_param |-> <<>>, keyword_param |-> <<>>,
     page_param |-> <<>>, per_page_param |-> <<>>, per_page |-> NoneInt,
     additional |-> <<>>, capture_script |-> FALSE]

\* the attributes a tag may carry, <<>> for one that is absent
Attrs(id, class, action, name, type, value) ==
    [id |-> id, class |-> class, action |-> action, name |-> name, type |-> type,
     value |-> value]

\* "not self._per_page"
NoPerPage(p) == ~p.per_page.some \/ p.per_page.v = 0

\* handle_starttag, tag == "form"
HandleForm(p, attr) ==
    IF IsSubstring(WordSearch, StrLower(attr.id \o <<" ">> \o attr.class))
       \/ IsSubstring(WordCardlist, attr.action)
    THEN [p EXCEPT !.in_form = TRUE, !.form_depth = 1]
    ELSE IF p.in_form THEN [p EXCEPT !.form_depth = @ + 1]
    ELSE p

\* handle_starttag, tag == "input": the parameter names an input gives away
\* by its name
InputParams(p, name, value) ==
    LET per == (IsSubstring(WordPerPage, name) \/ IsSubstring(WordLimit, name))
               /\ p.per_page_param = <<>>
    IN  [p EXCEPT
            !.pack_param =
                IF (IsSubstring(WordPack, name) \/ IsSubstring(WordSeries, name))
                   /\ value # <<>> /\ IsSubstring(Slash, value) /\ @ = <<>>
                THEN name ELSE @,
            !.lang_param = IF IsSubstring(WordLang, name) /\ @ = <<>> THEN name ELSE @,
            !.keyword_param = IF IsSubstring(WordKeyword, name) /\ @ = <<>> THEN name ELSE @,
            !.page_param = IF IsSubstring(WordPage, name) /\ @ = <<>> THEN name ELSE @,
            !.per_page_param = IF per THEN name ELSE @,
            !.per_page = IF per /\ IsDigit(value) THEN SomeInt(StrInt(value)) ELSE @]

\* handle_starttag, tag == "input" inside the search form
HandleInput(p, attr) ==
    LET hidden == StrLower(attr.type) = WordHidden /\ attr.value # <<>>
    IN  IF attr.name = <<>> THEN p
        ELSE IF hidden /\ IsSubstring(WordNonce, attr.name) /\ p.nonce = <<>>
        THEN [p EXCEPT !.nonce = attr.value]
        ELSE IF hidden /\ attr.name = WordAction /\ p.action = <<>>
        THEN [p EXCEPT !.action = attr.value]
        ELSE InputParams([p EXCEPT !.additional =
                                IF hidden THEN Append(@, <<attr.name, attr.value>>) ELSE @],
                         attr.name, attr.value)

\* handle_starttag, tag == "select" inside the search form
HandleSelect(p, attr) ==
    IF attr.name = <<>> THEN p
    ELSE [p EXCEPT
            !.lang_param = IF IsSubstring(WordLang, attr.name) /\ @ = <<>>
                           THEN attr.name ELSE @,
            !.per_page_param =
                IF (IsSubstring(WordPerPage, attr.name) \/ IsSubstring(WordLimit, attr.name))
                   /\ @ = <<>>
                THEN attr.name ELSE @]

\* _SearchPageParser.handle_starttag
handle_starttag(p, tag, attr) ==
    IF tag = "form" THEN HandleForm(p, attr)
    ELSE IF p.in_form /\ tag = "input" THEN HandleInput(p, attr)
    ELSE IF p.in_form /\ tag = "select" THEN HandleSelect(p, attr)
    ELSE IF tag = "script" THEN [p EXCEPT !.capture_script = TRUE]
    ELSE p

\* what the patterns of _parse_script capture from a script body
Captures(ajax_url, action, nonce, pack_param, lang_param, keyword_param, page_param,
         per_page_param, per_page) ==
    [ajax_url |-> ajax_url, action |-> action, nonce |-> nonce, pack_param |-> pack_param,
     lang_param |-> lang_param, keyword_param |-> keyword_param, page_param |-> page_param,
     per_page_param |-> per_page_param, per_page |-> per_page]

\* _SearchPageParser._parse_script: every field is filled only while it is
\* still unset
ParseScript(p, found) ==
    [p EXCEPT
        !.ajax_url = IF @ = <<>> /\ found.ajax_url # <<>> THEN found.ajax_url ELSE @,
        !.action = IF @ = <<>> /\ found.action # <<>> THEN found.action ELSE @,
        !.nonce = IF @ = <<>> /\ found.nonce # <<>> THEN found.nonce ELSE @,
        !.pack_param = IF @ = <<>> /\ found.pack_param # <<>> THEN found.pack_param ELSE @,
        !.lang_param = IF @ = <<>> /\ found.lang_param # <<>> THEN found.lang_param ELSE @,
        !.keyword_param =
            IF @ = <<>> /\ found.keyword_param # <<>> THEN found.keyword_param ELSE @,
        !.page_param = IF @ = <<>> /\ found.page_param # <<>> THEN found.page_param ELSE @,
        !.per_page_param =
            IF @ = <<>> /\ found.per_page_param # <<>> THEN found.per_page_param ELSE @,
        !.per_page = IF NoPerPage(p) /\ IsDigit(found.per_page)
                     THEN SomeInt(StrInt(found.per_page)) ELSE @]

\* _SearchPageParser.handle_endtag; found is the body of the script that ends
handle_endtag(p, tag, found) ==
    IF tag = "form" /\ p.in_form
    THEN [p EXCEPT !.form_depth = @ - 1, !.in_form = (p.form_depth - 1) > 0]
    ELSE IF tag = "script" /\ p.capture_script
    THEN ParseScript([p EXCEPT !.capture_script = FALSE], found)
    ELSE p

NoAttrs == Attrs(<<>>, <<>>, <<>>, <<>>, <<>>, <<>>)
NoCaptures == Captures(<<>>, <<>>, <<>>, <<>>, <<>>, <<>>, <<>>, <<>>, <<>>)
StartTag(tag, attr) == [ev |-> "start", tag |-> tag, attr |-> attr, found |-> NoCaptures]
EndTag(tag, found) == [ev |-> "end", tag |-> tag, attr |-> NoAttrs, found |-> found]

\* HTMLParser.feed: the handlers are called tag by tag
RECURSIVE FeedFrom(_, _, _)
FeedFrom(p, html, i) ==
    IF i > Len(html) THEN p
    ELSE FeedFrom(IF html[i].ev = "start"
                  THEN handle_starttag(p, html[i].tag, html[i].attr)
                  ELSE handle_endtag(p, html[i].tag, html[i].found),
                  html, i + 1)

\* the scheme and host of CardSearchClient.base_url
BaseOrigin ==
    <<"h", "t", "t", "p", "s", ":", "/", "/", "w", "s", "-", "t", "c", "g", ".", "c", "o",
      "m">>

\* urljoin(base_url, path) for a path that starts with one slash
UrlJoin(path) == BaseOrigin \o path

DefaultPackParam == WordPack \o Brackets

\* _SearchPageParser.to_config
to_config(p) ==
    [ajax_url |-> IF StartsWith(p.ajax_url, Slash) THEN UrlJoin(p.ajax_url) ELSE p.ajax_url,
     action |-> p.action,
     nonce |-> p.nonce,
     pack_param |-> IF p.pack_param # <<>> THEN p.pack_param ELSE DefaultPackParam,
     lang_param |-> p.lang_param,
     keyword_param |-> p.keyword_param,
     page_param |-> IF p.page_param # <<>> THEN p.page_param ELSE WordPage,
     per_page_param |-> p.per_page_param,
     per_page |-> p.per_page,
     additional_params |-> p.additional]

NoConfig == to_config(NewParser)

\* CardSearchClient._discover_config on the page _fetch_html returned
discover_config(html) ==
    LET found == to_config(FeedFrom(NewParser, html, 1))
    IN  IF found.ajax_url = <<>> THEN [ok |-> FALSE, config |-> NoConfig]
        ELSE [ok |-> TRUE, config |-> found]

(***************************************************************************)
(* SpecDiscovery: _discover_config on a search page of any content.        *)
(***************************************************************************)
Hidden(name, value) == StartTag("input", Attrs(<<>>, <<>>, <<>>, name, WordHidden, value))
TextInput(name, value) == StartTag("input", Attrs(<<>>, <<>>, <<>>, name, <<>>, value))
Select(name) == StartTag("select", Attrs(<<>>, <<>>, <<>>, name, <<>>, <<>>))

\* the controls a form may hold, in the order it holds them
FormControls ==
    <<Hidden(WordNonce, <<"f">>),
      Hidden(WordAction, <<"s">>),
      Hidden(WordSeries, <<"A", "/", "B">>),
      Select(WordLang),
      TextInput(WordKeyword, <<>>),
      Hidden(WordPage, <<"1">>),
      TextInput(WordLimit, <<"2", "0">>)>>

\* the controls of FormControls whose places are in keep
RECURSIVE Kept(_, _)
Kept(keep, i) ==
    IF i > Len(FormControls) THEN <<>>
    ELSE (IF i \in keep THEN <<FormControls[i]>> ELSE <<>>) \o Kept(keep, i + 1)

\* the opening tags of a form: recognised by its id, by its action, or not
FormTags ==
    {StartTag("form", Attrs(WordSearch, <<>>, <<>>, <<>>, <<>>, <<>>)),
     StartTag("form", Attrs(<<>>, <<"S", "e", "a", "r", "c", "h">>, <<>>, <<>>, <<>>, <<>>)),
     StartTag("form", Attrs(<<>>, <<>>, <<"/">> \o WordCardlist, <<>>, <<>>, <<>>)),
     StartTag("form", Attrs(<<"x">>, <<>>, <<>>, <<>>, <<>>, <<>>))}

Forms ==
    {<<open>> \o Kept(keep, 1) \o <<EndTag("form", NoCaptures)>> :
        open \in FormTags, keep \in SUBSET (1..Len(FormControls))}

RelativeAjax == <<"/", "w", "p", "/", "a">>
AbsoluteAjax == <<"h", "t", "t", "p", "s", ":", "/", "/", "w", "/", "a">>

\* script bodies: one that names everything, one with the endpoint alone,
\* one with a nonce but no endpoint, and a blank one
ScriptBodies ==
    {Captures(RelativeAjax, <<"t">>, <<"g">>, <<"p">>, <<"l">>, <<"k">>, <<"q">>, <<"n">>,
              <<"3", "0">>),
     Captures(AbsoluteAjax, <<>>, <<>>, <<>>, <<>>, <<>>, <<>>, <<>>, <<>>),
     Captures(<<>>, <<>>, <<"g">>, <<>>, <<>>, <<>>, <<>>, <<>>, <<"0">>),
     NoCaptures}

Scripts == {<<StartTag("script", NoAttrs), EndTag("script", body)>> : body \in ScriptBodies}

\* the pages the search site may serve
DiscoveryPages ==
    Forms \cup Scripts
    \cup {s \o f : s \in Scripts, f \in Forms}
    \cup {f \o s : s \in Scripts, f \in Forms}

DiscoveryInit ==
    /\ PagingIdle
    /\ FetcherIdle
    /\ RunIdle
    /\ MergeIdle
    /\ TextIdle
    /\ detail_site = [c \in {CodeA, CodeB} |-> DetailHttpError]

\* a CardSearchClient is constructed while the site serves the page drawn
Discover ==
    /\ call = NoCall
    /\ \E html \in DiscoveryPages :
        call' = Called("_discover_config", <<html>>, discover_config(html))
    /\ UNCHANGED <<pagingVars, fetcherVars, runVars, mergeVars>>

\* the catalogs, the language and the pages a request is built for
RequestSetCodes ==
    {<<"D", "D", "/", "S">>, <<"W">>, <<" ", "W", " ">>, <<"/", "S">>, <<"A", "/", "B", "/", "C">>}
RequestLanguage == <<"e", "n">>
RequestPages == {1, 12}

\* the client that discovered its config builds the payload of one request
BuildRequest ==
    /\ call.fn = "_discover_config"
    /\ call.result.ok
    /\ \E set_code \in RequestSetCodes, page_no \in RequestPages :
        call' = Called("_build_payload",
                       <<call.result.config, set_code, RequestLanguage, page_no>>,
                       build_payload(call.result.config, set_code, RequestLanguage, page_no))
    /\ UNCHANGED <<pagingVars, fetcherVars, runVars, mergeVars>>

DiscoveryNext == Discover \/ BuildRequest

SpecDiscovery == DiscoveryInit /\ [][DiscoveryNext]_vars

(***************************************************************************)
(* SpecRows: _derive_series_info and build_card_row called alone.          *)
(***************************************************************************)
\* what the first card may say of its series under the name, the code and
\* the release keys
CardNameParts ==
    {EmptyDict, "pack_name" :> JStr(<<"n">>), "title" :> JStr(<<"t">>),
     ("pack_name" :> JStr(<<" ">>)) @@ ("title" :> JStr(<<"t", " ">>))}
CardCodeParts == {EmptyDict, "pack_code" :> JStr(<<"c">>), "pack" :> JInt(1)}
CardReleaseParts == {EmptyDict, "release" :> JStr(<<"r">>), "date" :> JStr(<<>>)}

\* what its meta may be: absent, not an object, or an object that names
\* some of the three
MetaValues ==
    {JNull, JStr(<<"x">>)}
    \cup {JDict(a @@ b @@ c) :
            a \in {EmptyDict, "set_name" :> JStr(<<"m">>)},
            b \in {EmptyDict, "set_code" :> JStr(<<"e">>)},
            c \in {EmptyDict, "release_date" :> JStr(<<"f">>)}}

SeriesInfoCards ==
    {JDict(a @@ b @@ c @@ (IF m = JNull THEN EmptyDict ELSE "meta" :> m)) :
        a \in CardNameParts, b \in CardCodeParts, c \in CardReleaseParts, m \in MetaValues}

SeriesInfoInputs ==
    {<<>>, <<JStr(<<"x">>)>>}
    \cup {<<c>> : c \in SeriesInfoCards}
    \cup {<<JStr(<<"x">>), c, JDict("pack_name" :> JStr(<<"z">>))>> : c \in SeriesInfoCards}

DescriptionAlphabet == {"x", "y", " "}
DescriptionTexts == Texts(DescriptionAlphabet, MaxLen)

\* a raw card whose only ability text is the given one
RawWithAbility(text) ==
    JDict(("card_no" :> JStr(CodeA)) @@ ("name" :> JStr(<<"a">>)) @@ ("ability" :> JStr(text)))

RowsInit ==
    /\ PagingIdle
    /\ FetcherIdle
    /\ RunIdle
    /\ MergeIdle
    /\ TextIdle
    /\ detail_site = [c \in {CodeA, CodeB} |-> DetailHttpError]

\* the client derives the series info of the cards a search returned
CallDeriveSeriesInfo ==
    /\ call = NoCall
    /\ \E cards \in SeriesInfoInputs :
        call' = Called("_derive_series_info", <<cards, SetX>>, derive_series_info(cards, SetX))
    /\ UNCHANGED <<pagingVars, fetcherVars, runVars, mergeVars>>

\* build_card_row with a fresh detail fetcher whose site serves a page with
\* the effect drawn
CallBuildCardRow ==
    /\ call = NoCall
    /\ \E text \in DescriptionTexts, effect \in DescriptionTexts :
        call' = Called("build_card_row", <<RawWithAbility(text), effect>>,
                       build_card_row(RawWithAbility(text), <<"d", "d">>, SetX, TRUE,
                                      <<"j", "a">>,
                                      [cache |-> EmptyCache, log |-> <<>>, disabled |-> FALSE],
                                      [c \in {CodeA} |-> DetailPage(<<>>, effect, <<>>)]).row)
    /\ UNCHANGED <<pagingVars, fetcherVars, runVars, mergeVars>>

RowsNext == CallDeriveSeriesInfo \/ CallBuildCardRow

SpecRows == RowsInit /\ [][RowsNext]_vars

(***************************************************************************)
(* SpecOffline: load_offline_bundle on a snapshot of any content, and the  *)
(* merge of the one bundle it gives.                                       *)
(***************************************************************************)
Ddd97Series ==
    JDict(("id" :> JStr(<<"d", "d", "d", "-", "s", "9", "7">>)) @@ ("name" :> JStr(<<"n">>))
          @@ ("setCode" :> JStr(<<"D", "D", "D", "/", "S", "9", "7">>))
          @@ ("releaseYear" :> JInt(2024)))

Ddd97Card ==
    JDict(("id" :> JStr(<<"d", "d", "d", "-", "s", "9", "7", "-", "0", "0", "1">>))
          @@ ("seriesId" :> JStr(<<"d", "d", "d", "-", "s", "9", "7">>))
          @@ ("cardCode" :> JStr(<<"D", "D", "D", "/", "S", "9", "7", "-", "0", "0", "1">>))
          @@ ("title" :> JStr(<<"a">>)) @@ ("rarity" :> JStr(<<"S", "R">>)))

\* a card object without its rarity
OfflineNoRarity == JDict([k \in DOMAIN OfflineCard.d \ {"rarity"} |-> OfflineCard.d[k]])

\* a series object without its name
OfflineNoName == JDict([k \in DOMAIN OfflineSeries.d \ {"name"} |-> OfflineSeries.d[k]])

SnapshotCardPool == {Ddd97Card, OfflineCard, OfflineStray, OfflineNoRarity, JStr(<<"x">>)}

SnapshotCardLists == UNION {[1..n -> SnapshotCardPool] : n \in 0..MaxSnapshotCards}

SnapshotSeries ==
    {Ddd97Series, OfflineSeries, OfflineNoName, JNull, JDict(EmptyDict), JStr(<<"x">>)}

\* the files load_offline_bundle may find: none, one that is no JSON object,
\* and objects with or without series and cards
SnapshotFiles ==
    {OfflineMissing, OfflineJson(JList(<<>>))}
    \cup {OfflineJson(JDict(("series" :> s) @@ ("cards" :> JList(l)))) :
            s \in SnapshotSeries, l \in SnapshotCardLists}
    \cup {OfflineJson(JDict("series" :> s)) : s \in SnapshotSeries}
    \cup {OfflineJson(JDict(("series" :> s) @@ ("cards" :> JNull))) : s \in SnapshotSeries}
    \cup {OfflineJson(JDict("cards" :> JList(l))) : l \in SnapshotCardLists}

OfflineInit ==
    /\ PagingIdle
    /\ FetcherIdle
    /\ RunIdle
    /\ MergeIdle
    /\ TextIdle
    /\ detail_site = [c \in {CodeA, CodeB} |-> DetailHttpError]

\* a caller calls load_offline_bundle for a set whose file is the one drawn
OfflineLoad ==
    /\ call = NoCall
    /\ \E file \in SnapshotFiles :
        call' = Called("load_offline_bundle", <<file>>, load_offline_bundle(FreshGlobals, file))
    /\ UNCHANGED <<pagingVars, fetcherVars, runVars, mergeVars>>

\* the bundle the loader returned is merged alone
OfflineMerge ==
    /\ call.fn = "load_offline_bundle"
    /\ call.result.ok
    /\ mpc = "idle"
    /\ merge_in' = <<call.result.bundle>>
    /\ merged' = merge_bundles(<<call.result.bundle>>)
    /\ mpc' = "merged"
    /\ UNCHANGED <<pagingVars, fetcherVars, runVars, merged_prev, call>>

OfflineNext == OfflineLoad \/ OfflineMerge

SpecOffline == OfflineInit /\ [][OfflineNext]_vars

(***************************************************************************)
(* SpecMerge: merge_bundles called on bundles of any content.              *)
(***************************************************************************)
MergeSeriesPool ==
    {SeriesRow(<<"a">>, <<"A">>), SeriesRow(<<"a">>, <<"B">>), SeriesRow(<<"b">>, <<"B">>)}

MergeCardPool ==
    {CardRow(<<"k">>, <<"b">>, <<"K">>, <<"t">>, <<"R">>, <<>>, <<>>),
     CardRow(<<"k">>, <<"a">>, <<"K">>, <<"u">>, <<"C">>, <<>>, <<>>),
     CardRow(<<"m">>, <<"a">>, <<"K", "1">>, <<"t">>, <<"R">>, <<>>, <<>>)}

MergeBundles ==
    {ExportBundle(s, c) :
        s \in {<<>>, <<SeriesRow(<<"b">>, <<"B">>), SeriesRow(<<"a">>, <<"A">>)>>}
                \cup {<<x>> : x \in MergeSeriesPool},
        c \in UNION {[1..n -> MergeCardPool] : n \in 0..MaxMergeCards}}

MergeInputs == {<<a>> : a \in MergeBundles} \cup {<<a, b>> : a, b \in MergeBundles}

MergeInit ==
    /\ PagingIdle
    /\ FetcherIdle
    /\ RunIdle
    /\ MergeIdle
    /\ TextIdle
    /\ detail_site = [c \in {CodeA, CodeB} |-> DetailHttpError]

\* a caller merges some bundles
MergeCall ==
    /\ mpc = "idle"
    /\ \E bs \in MergeInputs :
        /\ merge_in' = bs
        /\ merged' = merge_bundles(bs)
    /\ mpc' = "merged"
    /\ UNCHANGED <<pagingVars, fetcherVars, runVars, merged_prev, call>>

\* the caller merges the same two bundles in the other order
MergeSwapped ==
    /\ mpc = "merged"
    /\ Len(merge_in) = 2
    /\ merge_in' = <<merge_in[2], merge_in[1]>>
    /\ merged' = merge_bundles(<<merge_in[2], merge_in[1]>>)
    /\ merged_prev' = merged
    /\ mpc' = "swapped"
    /\ UNCHANGED <<pagingVars, fetcherVars, runVars, call>>

\* the caller merges the merged bundle with itself
MergeAgain ==
    /\ mpc = "merged"
    /\ merge_in' = <<merged, merged>>
    /\ merged' = merge_bundles(<<merged, merged>>)
    /\ merged_prev' = merged
    /\ mpc' = "again"
    /\ UNCHANGED <<pagingVars, fetcherVars, runVars, call>>

MergeNext == MergeCall \/ MergeSwapped \/ MergeAgain

SpecMerge == MergeInit /\ [][MergeNext]_vars

(***************************************************************************)
(* Properties of pagination (SpecPaging).                                  *)
(***************************************************************************)
\* the page the last response answered: the loop has already stepped past it
\* when it goes on
AnsweredPage == IF ppc = "loop" THEN page - 1 ELSE page

\* an int-like JSON value, as _extract_int reads one
MaxValue(v) ==
    IF v.t = "int" THEN SomeInt(v.n)
    ELSE IF v.t = "str" /\ IsDigit(v.s) THEN SomeInt(StrInt(v.s))
    ELSE NoneInt

\* some has-more flag of the response, top-level or in its pager, is false
AnyFalseFlag(data) ==
    /\ data.t = "dict"
    /\ \/ \E k \in Range(TopFlagKeys) : Get(data.d, k) = JBool(FALSE)
       \/ /\ Get(data.d, "pager").t = "dict"
          /\ \E k \in Range(PagerFlagKeys) : Get(Get(data.d, "pager").d, k) = JBool(FALSE)

\* some max-page value of the response, top-level or in its pager, is <= p
AnyMaxReached(data, p) ==
    /\ data.t = "dict"
    /\ \/ \E k \in Range(TopMaxKeys) :
            MaxValue(Get(data.d, k)).some /\ MaxValue(Get(data.d, k)).v <= p
       \/ /\ Get(data.d, "pager").t = "dict"
          /\ \E k \in Range(PagerMaxKeys) :
                LET v == MaxValue(Get(Get(data.d, "pager").d, k))
                IN  v.some /\ v.v <= p

\* the verdicts of the indicators of a dict response in their order of
\* precedence: top-level flag, pager flag, pager max page, top-level max page
Verdicts(data, p) ==
    LET pager == Get(data.d, "pager")
        top == FirstBool(data.d, TopFlagKeys)
        pflag == IF pager.t = "dict" THEN FirstBool(pager.d, PagerFlagKeys) ELSE NoneBool
        pmax == ExtractInt(pager, PagerMaxKeys)
        tmax == ExtractInt(data, TopMaxKeys)
    IN  <<top, pflag,
          [some |-> pmax.some, b |-> p < pmax.v],
          [some |-> tmax.some, b |-> p < tmax.v]>>

\* the first indicator present says that there is no further page
DecidingIndicatorStops(data, p) ==
    /\ data.t = "dict"
    /\ \E i \in 1..4 :
        /\ Verdicts(data, p)[i].some
        /\ ~Verdicts(data, p)[i].b
        /\ \A j \in 1..(i - 1) : ~Verdicts(data, p)[j].some

\* C5 (as amended): fetch_cards requests no further page once, after a page's
\* response, the item list is empty, or the accumulated count has reached the
\* total first announced, or the first indicator present in the order
\* top-level flag, pager flag, pager max page, top-level max page says that
\* there is no further page.
C5_StopsByPrecedence ==
    (ppc = "loop" /\ requests > 0) =>
        /\ ExtractItems(reply.data) # <<>>
        /\ ~(expected_total.some /\ Len(results) >= expected_total.v)
        /\ ~DecidingIndicatorStops(reply.data, AnsweredPage)

\* C5 witness: a false top-level flag ends the pagination although the pager
\* of the same response says that there is more
C5_Witness ==
    /\ ppc = "exited" /\ requests = 1 /\ results # <<>>
    /\ reply.data.t = "dict"
    /\ Get(reply.data.d, "hasNext") = JBool(FALSE)
    /\ Get(reply.data.d, "pager") = JDict(("has_next" :> JBool(TRUE)) @@ ("last" :> JStr(<<"1">>)))

\* C5 (as stated): page p+1 is never requested once a false has-more flag or
\* a max-page value <= p has been seen on page p, whatever the other
\* indicators say.
C5_AnyIndicatorStops ==
    (ppc = "loop" /\ requests > 0) =>
        ~(AnyFalseFlag(reply.data) \/ AnyMaxReached(reply.data, AnsweredPage))

\* a response that is a full page of items and nothing else, in one of the
\* supported shapes
FullPlainPage(r, cfg) ==
    /\ r.kind = "json"
    /\ \E n \in {PerPageHint(cfg)} :
        \/ r.data = JList(Items(1, n))
        \/ \E k \in Range(ItemKeys) : r.data = JDict(k :> JList(Items(1, n)))

\* C6: after a full first page without pagination metadata, whatever its
\* shape, fetch_cards goes on to request page 2 (whose empty list then ends
\* the call with the items of page 1 after exactly 2 requests).
C6_FullPageThenEmpty ==
    /\ (requests = 1 /\ FullPlainPage(reply, config)) =>
            ppc = "loop" /\ page = 2 /\ results = Items(1, PerPageHint(config))
    /\ (ppc = "done" /\ outcome.kind = "result" /\ results = Items(1, PerPageHint(config))
        /\ expected_total = NoneInt /\ ExtractItems(reply.data) = <<>>) =>
            requests = 2 /\ outcome.cards = results

\* C7: one call of fetch_cards issues at most 200 page requests, whatever
\* the backend answers.
C7_AtMostCeilingRequests ==
    /\ requests <= PageCeiling
    /\ (ppc = "loop" /\ requests = PageCeiling) => ~ENABLED SearchPage

\* C7 witness: a backend that always has more has been asked 200 times
C7_Witness ==
    ppc = "loop" /\ requests = PageCeiling /\ Len(results) >= PageCeiling

C9_RequestedAtMostOnce ==
    \A i, j \in 1..Len(detail_log) :
        i # j => detail_log[i].key # detail_log[j].key

(***************************************************************************)
(* Properties of a run (Spec).                                             *)
(***************************************************************************)
\* C1: for every set the tiers attempted are, in this order and each once,
\* search, export, offline, up to the first one that succeeds; every tier
\* before the last attempted has failed, and the bundle of the set is the
\* bundle this one tier returned.
C1_TierOrder ==
    \A i \in 1..Len(trail) :
        LET tr == trail[i]
            n == Len(tr)
        IN  /\ n <= Len(Tiers)
            /\ \A j \in 1..n : tr[j].tier = Tiers[j] /\ (j < n => ~tr[j].ok)
            /\ i <= Len(bundles) => n >= 1 /\ tr[n].ok /\ bundles[i] = tr[n].bundle
            /\ i > Len(bundles) => \A j \in 1..n : ~tr[j].ok

\* C1 witness: one set went down to its offline file, the next one was
\* resolved by the export
C1_Witness ==
    /\ Len(bundles) = 2
    /\ Len(trail[1]) = 3 /\ trail[1][3].ok
    /\ Len(trail[2]) = 2 /\ trail[2][2].ok
    /\ bundles[1] # bundles[2]

C3_DetailFailureNotFatal ==
    \A i \in 1..Len(trail) : \A j \in 1..Len(trail[i]) :
        trail[i][j].tier = "search" => trail[i][j].err # "CardPageFetchError"

\* C4: whatever is raised inside the search tier or the export tier stays
\* inside load_set_bundle; what leaves it is an error of the offline tier.
C4_OnlyOfflineEscapes ==
    /\ raised # "none" <=> pc = "aborted"
    /\ pc = "aborted" =>
            /\ Len(trail[idx]) = 3
            /\ trail[idx][3].tier = "offline"
            /\ ~trail[idx][3].ok
            /\ raised = trail[idx][3].err
    /\ \A i \in 1..Len(trail) : \A j \in 1..Len(trail[i]) :
            (~trail[i][j].ok /\ trail[i][j].tier # "offline") =>
                (pc # "aborted" \/ i # idx \/ j < Len(trail[i]))

\* C4 witness: the search tier ended with an error that is no
\* CardSearchError, the export tier with a ValueError, and only the missing
\* offline file ended the run
C4_Witness ==
    /\ pc = "aborted" /\ raised = "FileNotFoundError"
    /\ trail[idx][1].err = "CardPageFetchError"
    /\ trail[idx][2].err = "ValueError"

CardKey(c) == <<c.id, c.cardCode>>

SeriesIdsOf(b) == {b.series[i].id : i \in 1..Len(b.series)}

CardKeysOf(b) == {CardKey(b.cards[i]) : i \in 1..Len(b.cards)}

RECURSIVE AllSeriesOf(_)
\* the Series records of some bundles in the order the merge meets them
AllSeriesOf(bs) == IF bs = <<>> THEN <<>> ELSE Head(bs).series \o AllSeriesOf(Tail(bs))

RECURSIVE AllCardsOf(_)
\* the Card records of some bundles in the order the merge meets them
AllCardsOf(bs) == IF bs = <<>> THEN <<>> ELSE Head(bs).cards \o AllCardsOf(Tail(bs))

\* the keys of some Card records, and of some Series records
CardKeys(seq) == [i \in 1..Len(seq) |-> CardKey(seq[i])]

SeriesKeys(seq) == [i \in 1..Len(seq) |-> seq[i].id]

\* the positions of a list of keys that hold the first occurrence of a key
FirstPositions(keys) ==
    {i \in 1..Len(keys) : \A j \in 1..(i - 1) : keys[j] # keys[i]}

\* the first record of every key, in the order of the list
FirstOccurrences(seq, keys) ==
    [n \in 1..Cardinality(FirstPositions(keys)) |->
        seq[CHOOSE i \in FirstPositions(keys) :
                Cardinality({j \in FirstPositions(keys) : j < i}) = n - 1]]

\* the first records of the Series and of the Cards some bundles hold
FirstSeries(bs) == FirstOccurrences(AllSeriesOf(bs), SeriesKeys(AllSeriesOf(bs)))

FirstCards(bs) == FirstOccurrences(AllCardsOf(bs), CardKeys(AllCardsOf(bs)))

\* (seriesId, cardCode) of c is smaller than that of d
PairBefore(c, d) ==
    \/ StrLess(c.seriesId, d.seriesId)
    \/ c.seriesId = d.seriesId /\ StrLess(c.cardCode, d.cardCode)

\* C11: in the bundle a merge returns no two Series share an id and no two
\* Cards share the pair (id, cardCode).
C11_DistinctKeys ==
    mpc # "idle" =>
        /\ \A i, j \in 1..Len(merged.series) :
                merged.series[i].id = merged.series[j].id => i = j
        /\ \A i, j \in 1..Len(merged.cards) :
                CardKey(merged.cards[i]) = CardKey(merged.cards[j]) => i = j

\* C11 witness: two bundles that share a Series id and a Card key were merged
C11_Witness ==
    /\ mpc = "merged" /\ Len(merge_in) = 2
    /\ SeriesIdsOf(merge_in[1]) \cap SeriesIdsOf(merge_in[2]) # {}
    /\ CardKeysOf(merge_in[1]) \cap CardKeysOf(merge_in[2]) # {}

\* C12: the merged series list is the first record of every Series id in the
\* order the ids are first met (not sorted), and the merged cards are the
\* first record of every Card key.
C12_FirstOccurrenceKept ==
    mpc # "idle" =>
        /\ merged.series = FirstSeries(merge_in)
        /\ Range(merged.cards) = Range(FirstCards(merge_in))
        /\ Len(merged.cards) = Len(FirstCards(merge_in))

\* C12 witness: a later record of a Series id and one of a Card key were
\* dropped, and the series list came out in an order that is not sorted
C12_Witness ==
    /\ mpc = "merged"
    /\ Range(AllSeriesOf(merge_in)) # Range(merged.series)
    /\ Range(AllCardsOf(merge_in)) # Range(merged.cards)
    /\ Len(merged.series) = 2
    /\ StrLess(merged.series[2].id, merged.series[1].id)

\* C13: the merged card list is in ascending lexicographic order of
\* (seriesId, cardCode).
C13_CardsSorted ==
    mpc # "idle" =>
        \A i, j \in 1..Len(merged.cards) :
            i < j => ~PairBefore(merged.cards[j], merged.cards[i])

\* C13 witness: the cards were met in another order than the sorted one, with
\* the series deciding against the card code
C13_Witness ==
    /\ mpc = "merged"
    /\ merged.cards # FirstCards(merge_in)
    /\ \E i, j \in 1..Len(merged.cards) :
            i < j /\ StrLess(merged.cards[j].cardCode, merged.cards[i].cardCode)

\* C14: merging two bundles in the other order gives the same Series ids and
\* the same Card keys; under a key it is the record of whichever bundle
\* comes first that survives.
C14_OrderOnlyBreaksTies ==
    (mpc = "swapped" /\ Len(merge_in) = 2) =>
        /\ SeriesIdsOf(merged) = SeriesIdsOf(merged_prev)
        /\ CardKeysOf(merged) = CardKeysOf(merged_prev)
        /\ Range(merged.cards) \subseteq Range(FirstCards(merge_in))
        /\ Range(merged_prev.cards) \subseteq Range(FirstCards(<<merge_in[2], merge_in[1]>>))
        /\ Range(merged.series) \subseteq Range(FirstSeries(merge_in))
        /\ Range(merged_prev.series) \subseteq Range(FirstSeries(<<merge_in[2], merge_in[1]>>))

\* C14 witness: the two bundles hold different records under a shared Card
\* key and a shared Series id, and the two merges differ
C14_Witness ==
    /\ mpc = "swapped"
    /\ Range(merged.cards) # Range(merged_prev.cards)
    /\ Range(merged.series) # Range(merged_prev.series)

\* C15: merging the merged bundle with itself gives its series list and its
\* card list back, in the same order.
C15_MergeIdempotent ==
    mpc = "again" => (merged.series = merged_prev.series /\ merged.cards = merged_prev.cards)

\* C15 witness: a merged bundle of two series and two cards was merged with
\* itself
C15_Witness ==
    /\ mpc = "again"
    /\ merge_in = <<merged_prev, merged_prev>>
    /\ Len(merged_prev.series) = 2 /\ Len(merged_prev.cards) >= 2

(***************************************************************************)
(* Properties of the rows (Spec).                                          *)
(***************************************************************************)
\* every Card of the bundle names a Series of the bundle
Resolves(b) == \A i \in 1..Len(b.cards) : b.cards[i].seriesId \in SeriesIdsOf(b)

Rarities == {<<"C">>, <<"U">>, <<"R">>, <<"S", "R">>, <<"S", "P">>}

RarityRule ==
    (<<"C">> :> <<"C">>) @@ (<<"U">> :> <<"U">>) @@ (<<"R">> :> <<"R">>)
    @@ (<<"S", "R">> :> <<"S", "R">>) @@ (<<"R", "R">> :> <<"S", "R">>)
    @@ (<<"R", "R", "R">> :> <<"S", "P">>) @@ (<<"S", "E", "C">> :> <<"S", "P">>)
    @@ (<<"S", "P">> :> <<"S", "P">>) @@ (<<"S", "S", "P">> :> <<"S", "P">>)

\* what the rule gives a label once it is brought to the form the table is
\* read in
RuleOn(label) == IF label \in DOMAIN RarityRule THEN RarityRule[label] ELSE <<"R">>

\* C18: normalise_rarity gives one of C, U, R, SR, SP for every input; an
\* empty or missing label gives C; any other label, with the white space
\* around it removed and upper-cased, gives what the table says when it is
\* one of the nine labels, and R when it is not.
C18_RarityRuleStripped ==
    call.fn = "normalise_rarity" =>
        /\ call.result \in Rarities
        /\ call.result = IF call.args[1] = <<>> THEN <<"C">>
                         ELSE RuleOn(StrUpper(StrStrip(call.args[1])))

\* C18 witness: a lower-case label of the table with white space around it
\* was normalised
C18_Witness ==
    /\ call.fn = "normalise_rarity"
    /\ call.args[1] = <<" ", "r", "r">>
    /\ call.result = <<"S", "R">>

\* C18 as stated: the label is only upper-cased before the table is read, so
\* a non-empty label that is none of the nine after upper-casing gives R.
C18_RarityRule ==
    call.fn = "normalise_rarity" =>
        /\ call.result \in Rarities
        /\ call.result = IF call.args[1] = <<>> THEN <<"C">>
                         ELSE RuleOn(StrUpper(call.args[1]))

\* the inputs C19 speaks of: empty or missing, absolute with http or https,
\* or protocol-relative
CoveredUrl(u) ==
    \/ u = <<>>
    \/ StartsWith(u, HttpsScheme)
    \/ StartsWith(u, HttpScheme)
    \/ StartsWith(u, SlashSlash)

\* C19: for an image URL that is empty or missing, absolute with https or
\* http, or protocol-relative, normalise_image_url returns a URL that begins
\* with https://.
C19_AlwaysHttps ==
    (call.fn = "normalise_image_url" /\ CoveredUrl(call.args[1])) =>
        StartsWith(call.result, HttpsScheme)

SlugFunctions ==
    {"slugify_card_code", "slugify_series_id", "_slugify_set_code", "_slugify_card_code"}

Separator(fn) == IF fn \in {"slugify_card_code", "slugify_series_id"} THEN "-" ELSE "_"

\* the slug function of that name applied to a text
SlugBy(fn, text) ==
    IF fn = "slugify_card_code" THEN slugify_card_code(text)
    ELSE IF fn = "slugify_series_id" THEN slugify_series_id(text)
    ELSE IF fn = "_slugify_set_code" THEN SlugifySetCode(text)
    ELSE SlugifyCardCode(text)

\* C20: each slug function gives, for every input, a non-empty text of
\* lower-case letters, digits and its separator that neither begins nor ends
\* with the separator, and applied to its own result it gives that result.
C20_SlugShape ==
    call.fn \in SlugFunctions =>
        /\ call.result # <<>>
        /\ \A i \in 1..Len(call.result) :
                call.result[i] \in Range(LowerLetters) \cup Range(DigitChars)
                                   \cup {Separator(call.fn)}
        /\ call.result[1] # Separator(call.fn)
        /\ call.result[Len(call.result)] # Separator(call.fn)
        /\ SlugBy(call.fn, call.result) = call.result

(***************************************************************************)
(* Properties of the offline loader (SpecOffline).                         *)
(***************************************************************************)
\* the file holds a series object with its four fields and a readable year
HasValidSeries(file) ==
    /\ file.kind = "json" /\ file.data.t = "dict"
    /\ "series" \in DOMAIN file.data.d
    /\ file.data.d["series"].t = "dict"
    /\ {"id", "name", "setCode", "releaseYear"} \subseteq DOMAIN file.data.d["series"].d
    /\ file.data.d["series"].d["releaseYear"].t = "int"

\* the file holds a cards array of exactly one card object with the five
\* fields a card must have
HasOneGoodCard(file) ==
    /\ file.kind = "json" /\ file.data.t = "dict"
    /\ "cards" \in DOMAIN file.data.d
    /\ file.data.d["cards"].t = "list"
    /\ Len(file.data.d["cards"].l) = 1
    /\ file.data.d["cards"].l[1].t = "dict"
    /\ {"id", "seriesId", "cardCode", "title", "rarity"}
            \subseteq DOMAIN file.data.d["cards"].l[1].d

Ddd97File == OfflineJson(JDict(("series" :> Ddd97Series) @@ ("cards" :> JList(<<Ddd97Card>>))))

C22_FailsWithoutSeriesOrCards ==
    (call.fn = "load_offline_bundle"
        /\ ~(/\ call.args[1].kind = "json" /\ call.args[1].data.t = "dict"
             /\ "series" \in DOMAIN call.args[1].data.d
             /\ call.args[1].data.d["series"].t = "dict"
             /\ "cards" \in DOMAIN call.args[1].data.d
             /\ call.args[1].data.d["cards"].t = "list")) =>
        (~call.result.ok /\ call.result.bundle = NoBundle)

(***************************************************************************)
(* Properties of the export tier (Spec).                                   *)
(***************************************************************************)
\* the array holds a raw card that has a code and a title
HoldsCards(array) == \E i \in 1..Len(array.l) : array.l[i] \in {RawA, RawB}

\* the payload holds such an array in one of the documented positions
AtDocumentedPosition(p) ==
    \/ p.t = "list" /\ HoldsCards(p)
    \/ /\ p.t = "dict"
       /\ \E k \in Range(CardsArrayKeys) :
            \/ Get(p.d, k).t = "list" /\ HoldsCards(Get(p.d, k))
            \/ /\ Get(p.d, k).t = "dict"
               /\ \E n \in Range(NestedArrayKeys) :
                    /\ Get(Get(p.d, k).d, n).t = "list"
                    /\ HoldsCards(Get(Get(p.d, k).d, n))

\* C23: when the export answers with a payload that holds the raw card array
\* in a documented position (top level, directly under data, cards,
\* cardList, list or items, or one level deeper under items, rows, list or
\* data), the export tier finds the cards and gives the bundle of the set.
C23_FindsCardArray ==
    (drawn.idx >= 1 /\ drawn.export.kind = "json" /\ AtDocumentedPosition(drawn.export.data)) =>
        \A j \in 1..Len(trail[drawn.idx]) :
            trail[drawn.idx][j].tier = "export" => trail[drawn.idx][j].ok

(***************************************************************************)
(* Properties of search-config discovery (SpecDiscovery).                  *)
(***************************************************************************)
\* the page without its script elements
WithoutScripts(html) == SelectSeq(html, LAMBDA e : e.tag # "script")

\* what the form markup of the page alone supplies
FormMarkup(html) == FeedFrom(NewParser, WithoutScripts(html), 1)

PrecedenceFields ==
    {"nonce", "action", "pack_param", "lang_param", "keyword_param", "page_param",
     "per_page_param"}

\* C24: in search-config discovery a value the form markup supplies for the
\* nonce, the action or one of the pack, language, keyword, page and per-page
\* parameter names is the value of the discovered config, wherever the
\* script elements of the page stand; a script only fills what the form left
\* open.
C24_FormTakesPrecedence ==
    (call.fn = "_discover_config" /\ call.result.ok) =>
        \A f \in PrecedenceFields :
            FormMarkup(call.args[1])[f] # <<>> =>
                call.result.config[f] = FormMarkup(call.args[1])[f]

\* the names the catalog identifier is documented to travel under
DocumentedPackNames(cfg) ==
    {<<"p", "a", "c", "k", "[", "]">>, <<"p", "a", "c", "k">>, <<"s", "e", "t", "[", "]">>,
     <<"p", "r", "o", "d", "u", "c", "t", "[", "]">>, cfg.pack_param}

\* the text before and the text after the first slash of a text that has one
BeforeSlash(s) == SubSeq(s, 1, (CHOOSE i \in 1..Len(s) : s[i] = "/" /\ "/" \notin Range(SubSeq(s, 1, i - 1))) - 1)
AfterSlash(s) == SubSeq(s, Len(BeforeSlash(s)) + 2, Len(s))

\* the identifier and, where it holds a slash, its family and suffix parts
DocumentedPackValues(code) ==
    {code} \cup (IF "/" \in Range(code) THEN {BeforeSlash(code), AfterSlash(code)} ELSE {})

\* C25: the payload of every search request carries the catalog identifier
\* under each of pack[], pack, set[], product[] and the discovered pack
\* parameter name, and the family part and the suffix part of an identifier
\* with a slash under all of those names as well.
C25_IdentifierUnderEveryName ==
    call.fn = "_build_payload" =>
        \A name \in DocumentedPackNames(call.args[1]) :
            \A value \in DocumentedPackValues(StrStrip(call.args[2])) :
                <<name, value>> \in Range(call.result)

(***************************************************************************)
(* Properties of the series info and of the card rows (SpecRows).          *)
(***************************************************************************)
\* the first object among the cards, as a one-element sequence
FirstObject(cards) ==
    IF \E i \in 1..Len(cards) : cards[i].t = "dict"
    THEN <<SelectSeq(cards, LAMBDA c : c.t = "dict")[1]>> ELSE <<>>

\* the info field each key list feeds
InfoFields ==
    {<<"name", SeriesNameKeys>>, <<"setCode", SeriesInfoCodeKeys>>, <<"release", ReleaseKeys>>}

\* the first non-empty text the card itself holds under the keys
OnCard(cards, keys) == FirstNonEmpty(FirstObject(cards)[1].d, keys)

\* C26: in the series info derived from the first raw card and its meta
\* object, the name, the code and the release date are each the first
\* non-empty match: a value the card itself holds is never replaced by one
\* of meta.
C26_CardValueKept ==
    (call.fn = "_derive_series_info" /\ FirstObject(call.args[1]) # <<>>) =>
        \A field \in InfoFields :
            OnCard(call.args[1], field[2]) # <<>> =>
                Get(call.result, field[1]) = JStr(OnCard(call.args[1], field[2]))

\* the text the detail page supplied and the description of the raw record
DetailEffect == StrStrip(call.args[2])
RawDescription == StrStrip(call.args[1].d["ability"].s)

\* C27: when the detail page supplies effect text and either that text or
\* the description derived from the raw record is a substring of the other,
\* the row's description is one of the two texts, not their concatenation.
C27_NoMergeOfSubstrings ==
    (call.fn = "build_card_row" /\ call.args[2] # <<>>
     /\ (IsSubstring(DetailEffect, RawDescription) \/ IsSubstring(RawDescription, DetailEffect))) =>
        /\ call.result # <<>>
        /\ call.result[1].description \in {DetailEffect, RawDescription}

(***************************************************************************)
(* Properties of the live tiers (Spec).                                    *)
(***************************************************************************)
SlugChars == LowerSet \cup DigitSet

\* the maximal runs of lower-case letters and digits of a text, in order
RECURSIVE AlnumRuns(_, _, _)
AlnumRuns(text, runs, run) ==
    IF text = <<>> THEN (IF run = <<>> THEN runs ELSE Append(runs, run))
    ELSE IF Head(text) \in SlugChars THEN AlnumRuns(Tail(text), runs, Append(run, Head(text)))
    ELSE AlnumRuns(Tail(text), IF run = <<>> THEN runs ELSE Append(runs, run), <<>>)

RECURSIVE JoinHyphen(_)
JoinHyphen(runs) ==
    IF runs = <<>> THEN <<>>
    ELSE IF Len(runs) = 1 THEN runs[1]
    ELSE runs[1] \o <<"-">> \o JoinHyphen(Tail(runs))

\* the hyphen-slug of a text: its lower-cased runs of letters and digits,
\* joined by single hyphens
HyphenSlug(text) == JoinHyphen(AlnumRuns(StrLower(text), <<>>, <<>>))

\* one Series, at least one Card, ids that are the slugs of the codes, and
\* every Card under that Series
WellFormedLive(b) ==
    /\ Len(b.series) = 1
    /\ Len(b.cards) >= 1
    /\ b.series[1].id = HyphenSlug(b.series[1].setCode)
    /\ \A k \in 1..Len(b.cards) :
        /\ b.cards[k].id = HyphenSlug(b.cards[k].cardCode)
        /\ b.cards[k].seriesId = b.series[1].id

LiveTiers == {"search", "export"}

\* the attempts of the live tiers that returned a bundle
LiveBundles ==
    {<<i, j>> \in (1..Len(trail)) \X (1..3) :
        j <= Len(trail[i]) /\ trail[i][j].tier \in LiveTiers /\ trail[i][j].ok}

\* C28: every bundle the search tier or the export tier returns holds exactly
\* one Series and at least one Card, the Series id is the hyphen-slug of its
\* setCode, every Card id is the hyphen-slug of its cardCode and every
\* Card's seriesId is that Series id; a live tier never returns a bundle
\* without cards.
C28_LiveBundleWellFormed ==
    \A a \in LiveBundles : WellFormedLive(trail[a[1]][a[2]].bundle)

\* both live tiers have returned a bundle in one run, each with an id that
\* differs from the code it is the slug of
C28_Witness ==
    /\ \E a, b \in LiveBundles :
        /\ trail[a[1]][a[2]].tier = "search"
        /\ trail[b[1]][b[2]].tier = "export"
        /\ trail[b[1]][b[2]].bundle.series[1].id # trail[b[1]][b[2]].bundle.series[1].setCode
        /\ Len(trail[a[1]][a[2]].bundle.cards) = MaxCards
    /\ C28_LiveBundleWellFormed

(***************************************************************************)
(* Properties of search-config discovery in a run (Spec).                  *)
(***************************************************************************)
\* the step is a search-tier attempt that failed with CardSearchError
\* without loading the search page and with no request to the search endpoint
FailsAtOnce ==
    /\ Len(trail'[idx]) = Len(trail[idx]) + 1
    /\ trail'[idx][Len(trail'[idx])].tier = "search"
    /\ ~trail'[idx][Len(trail'[idx])].ok
    /\ trail'[idx][Len(trail'[idx])].err = "CardSearchError"
    /\ discoveries' = discoveries
    /\ requests' = 0
    /\ pc' = "export"

DiscoveryOnceStep ==
    /\ discoveries' # discoveries => (SEARCH_CLIENT = "None" /\ discoveries' = 1)
    /\ SEARCH_CLIENT = "client" => (SEARCH_CLIENT' = "client" /\ config' = config)
    /\ SEARCH_CLIENT = "FAILED" => SEARCH_CLIENT' = "FAILED"
    /\ (SEARCH_CLIENT = "FAILED" /\ pc = "search") => FailsAtOnce

\* C29: in one run the search page is loaded at most once: once discovery
\* has succeeded the same client and config serve every later catalog, and
\* once it has failed with CardSearchError the search tier of every later
\* catalog fails at once, with no request to the search page or the search
\* endpoint, and the catalog goes on to the export tier.
C29_DiscoveryOnce == [][DiscoveryOnceStep]_vars

\* the second catalog's search tier has failed after discovery failed on
\* the first, with one load of the search page and no search request
C29_Witness ==
    /\ SEARCH_CLIENT = "FAILED"
    /\ Len(sets) = 2 /\ idx = 2
    /\ Len(trail[2]) >= 1
    /\ trail[2][1].tier = "search" /\ trail[2][1].err = "CardSearchError"
    /\ discoveries = 1
    /\ requests = 0

(***************************************************************************)
(* Properties of the page sequence (SpecPaging).                           *)
(***************************************************************************)
\* the item lists of the responses, one after the other
RECURSIVE Concatenated(_)
Concatenated(lists) ==
    IF lists = <<>> THEN <<>> ELSE Head(lists) \o Concatenated(Tail(lists))

\* C30: in one call the requests carry the page numbers 1, 2, ..., k in this
\* order, each once; the results held, and the list returned, are the items
\* of every response received, page after page, none dropped, doubled,
\* moved or cut off at the announced total.
C30_PagesInOrder ==
    /\ Len(asked) = requests
    /\ \A i \in 1..Len(asked) :
        /\ asked[i][1] = config.page_param
        /\ IsDigit(asked[i][2])
        /\ StrInt(asked[i][2]) = i
    /\ ppc \in {"loop", "exited"} => results = Concatenated(received)
    /\ (ppc = "done" /\ outcome.kind = "result") => outcome.cards = Concatenated(received)

\* a call that returned the items of two pages once the total the first
\* page announced was reached
C30_Witness ==
    /\ ppc = "done" /\ outcome.kind = "result"
    /\ requests = 2
    /\ Len(received) = 2 /\ received[1] # <<>> /\ received[2] # <<>>
    /\ expected_total.some /\ Len(outcome.cards) >= expected_total.v
    /\ outcome.cards = received[1] \o received[2]

====
